---- MODULE Spec2Model ----
(***************************************************************************)
(* Chess rules (chessRules.js), AI player (aiPlayer.js) and the game       *)
(* controller (App.js) of PreciseData/chess-app.                           *)
(*                                                                         *)
(* A board is a function row -> col -> piece over 0..7 x 0..7, row 0 being *)
(* black's back rank.  A piece is a record [type, color]; the JavaScript   *)
(* values null and undefined are the records Null and Undefined.  Scores   *)
(* are kept in half points (the position tables hold multiples of 0.5), so *)
(* every score of the source appears here multiplied by two.               *)
(***************************************************************************)
EXTENDS Integers, Sequences, FiniteSets, TLC

VARIABLES gameState, gameSettings, statusTimer, lastOp, ply, call, gameTimer

vars == <<gameState, gameSettings, statusTimer, lastOp, ply, call, gameTimer>>

(***************************************************************************)
(* Values                                                                  *)
(***************************************************************************)
Null == [type |-> "null", color |-> "null"]

Undefined == [type |-> "undefined", color |-> "undefined"]

P(t, c) == [type |-> t, color |-> c]

PieceTypes == {"pawn", "rook", "knight", "bishop", "queen", "king"}

Colors == {"white", "black"}

Idx == 0..7

Squares == Idx \X Idx

\* JavaScript truthiness of a square's content
Truthy(x) == x # Null /\ x # Undefined

Abs(n) == IF n < 0 THEN -n ELSE n

Other(color) == IF color = "white" THEN "black" ELSE "white"

\* board[r][c] for a row inside the board: a column outside 0..7 reads undefined
At(board, r, c) == IF c \in Idx THEN board[r][c] ELSE Undefined

\* lastMove.piece.type: a move recorded by handleMove holds the piece's type
\* as a string (field str), which has no property "type"; a move generated by
\* getAllValidMoves holds the piece object
PieceTypeOf(p) == IF "type" \in DOMAIN p THEN p.type ELSE "undefined"

NoLastMove == [none |-> TRUE]

NoRights == [none |-> TRUE]

IsNull(x) == "none" \in DOMAIN x

(***************************************************************************)
(* chessRules.js: movement rules                                           *)
(***************************************************************************)
RECURSIVE pathWalk(_, _, _, _, _, _, _)
pathWalk(board, currentRow, currentCol, toRow, toCol, rowStep, colStep) ==
  IF ~(currentRow # toRow \/ currentCol # toCol) THEN TRUE
  ELSE IF At(board, currentRow, currentCol) # Null THEN FALSE
  ELSE pathWalk(board, currentRow + rowStep, currentCol + colStep, toRow, toCol, rowStep, colStep)

\* the squares the loop of isPathClear reads before it returns
RECURSIVE pathRead(_, _, _, _, _, _, _)
pathRead(board, currentRow, currentCol, toRow, toCol, rowStep, colStep) ==
  IF ~(currentRow # toRow \/ currentCol # toCol) THEN {}
  ELSE IF At(board, currentRow, currentCol) # Null THEN {<<currentRow, currentCol>>}
  ELSE {<<currentRow, currentCol>>}
         \cup pathRead(board, currentRow + rowStep, currentCol + colStep, toRow, toCol, rowStep, colStep)

\* a path test that looks only at the square next to the source
pathClearAdjacentOnly(board, fromRow, fromCol, toRow, toCol) ==
  LET rowStep == IF fromRow = toRow THEN 0 ELSE (IF toRow > fromRow THEN 1 ELSE -1)
      colStep == IF fromCol = toCol THEN 0 ELSE (IF toCol > fromCol THEN 1 ELSE -1)
  IN  \/ fromRow + rowStep = toRow /\ fromCol + colStep = toCol
      \/ At(board, fromRow + rowStep, fromCol + colStep) = Null

isPathClear(board, fromRow, fromCol, toRow, toCol) ==
  LET rowStep == IF fromRow = toRow THEN 0 ELSE (IF toRow > fromRow THEN 1 ELSE -1)
      colStep == IF fromCol = toCol THEN 0 ELSE (IF toCol > fromCol THEN 1 ELSE -1)
  IN  pathWalk(board, fromRow + rowStep, fromCol + colStep, toRow, toCol, rowStep, colStep)

\* a pawn rule whose double step does not look at the square it crosses
pawnMoveJumps(board, fromRow, fromCol, toRow, toCol, lastMove) ==
  LET piece == board[fromRow][fromCol]
      direction == IF piece.color = "white" THEN -1 ELSE 1
      startingRow == IF piece.color = "white" THEN 6 ELSE 1
  IN  \/ /\ fromCol = toCol
         /\ At(board, toRow, toCol) = Null
         /\ \/ toRow = fromRow + direction
            \/ /\ fromRow = startingRow
               /\ toRow = fromRow + 2 * direction
      \/ /\ toRow = fromRow + direction
         /\ Abs(toCol - fromCol) = 1
         /\ \/ /\ Truthy(At(board, toRow, toCol))
               /\ At(board, toRow, toCol).color # piece.color
            \/ /\ ~IsNull(lastMove)
               /\ PieceTypeOf(lastMove.piece) = "pawn"
               /\ lastMove.to.row = fromRow
               /\ lastMove.to.col = toCol
               /\ Abs(lastMove.from.row - lastMove.to.row) = 2

isValidPawnMove(board, fromRow, fromCol, toRow, toCol, lastMove) ==
  LET piece == board[fromRow][fromCol]
      direction == IF piece.color = "white" THEN -1 ELSE 1
      startingRow == IF piece.color = "white" THEN 6 ELSE 1
  IN  \/ /\ fromCol = toCol
         /\ At(board, toRow, toCol) = Null
         /\ \/ toRow = fromRow + direction
            \/ /\ fromRow = startingRow
               /\ toRow = fromRow + 2 * direction
               /\ board[fromRow + direction][fromCol] = Null
      \/ /\ toRow = fromRow + direction
         /\ Abs(toCol - fromCol) = 1
         /\ \/ /\ Truthy(At(board, toRow, toCol))
               /\ At(board, toRow, toCol).color # piece.color
            \/ /\ ~IsNull(lastMove)
               /\ PieceTypeOf(lastMove.piece) = "pawn"
               /\ lastMove.to.row = fromRow
               /\ lastMove.to.col = toCol
               /\ Abs(lastMove.from.row - lastMove.to.row) = 2

isValidRookMove(board, fromRow, fromCol, toRow, toCol) ==
  IF fromRow # toRow /\ fromCol # toCol THEN FALSE
  ELSE isPathClear(board, fromRow, fromCol, toRow, toCol)

\* a knight test that only adds the two distances
knightBySum(fromRow, fromCol, toRow, toCol) ==
  Abs(toRow - fromRow) + Abs(toCol - fromCol) = 3

isValidKnightMove(fromRow, fromCol, toRow, toCol) ==
  LET rowDiff == Abs(toRow - fromRow)
      colDiff == Abs(toCol - fromCol)
  IN  (rowDiff = 2 /\ colDiff = 1) \/ (rowDiff = 1 /\ colDiff = 2)

isValidBishopMove(board, fromRow, fromCol, toRow, toCol) ==
  IF Abs(toRow - fromRow) # Abs(toCol - fromCol) THEN FALSE
  ELSE isPathClear(board, fromRow, fromCol, toRow, toCol)

isValidQueenMove(board, fromRow, fromCol, toRow, toCol) ==
  \/ isValidRookMove(board, fromRow, fromCol, toRow, toCol)
  \/ isValidBishopMove(board, fromRow, fromCol, toRow, toCol)

RECURSIVE rayAttack(_, _, _, _, _, _, _, _)
rayAttack(board, row, col, rowDir, colDir, newRow, newCol, attackingColor) ==
  IF ~(newRow >= 0 /\ newRow < 8 /\ newCol >= 0 /\ newCol < 8) THEN FALSE
  ELSE IF Truthy(board[newRow][newCol])
       THEN /\ board[newRow][newCol].color = attackingColor
            /\ LET pieceType == board[newRow][newCol].type
               IN  \/ /\ pieceType \in {"bishop", "queen"}
                      /\ Abs(rowDir) = Abs(colDir)
                   \/ /\ pieceType \in {"rook", "queen"}
                      /\ (rowDir = 0 \/ colDir = 0)
                   \/ /\ pieceType = "king"
                      /\ Abs(newRow - row) <= 1
                      /\ Abs(newCol - col) <= 1
       ELSE rayAttack(board, row, col, rowDir, colDir, newRow + rowDir, newCol + colDir, attackingColor)

knightMoves == {<<-2, -1>>, <<-2, 1>>, <<-1, -2>>, <<-1, 2>>, <<1, -2>>, <<1, 2>>, <<2, -1>>, <<2, 1>>}

directions == {<<-1, -1>>, <<-1, 0>>, <<-1, 1>>, <<0, -1>>, <<0, 1>>, <<1, -1>>, <<1, 0>>, <<1, 1>>}

isSquareAttacked(board, row, col, defendingColor) ==
  LET attackingColor == IF defendingColor = "white" THEN "black" ELSE "white"
      pawnDirection == IF defendingColor = "white" THEN 1 ELSE -1
  IN  \/ /\ row + pawnDirection >= 0
         /\ row + pawnDirection < 8
         /\ \/ /\ col - 1 >= 0
               /\ At(board, row + pawnDirection, col - 1) = P("pawn", attackingColor)
            \/ /\ col + 1 < 8
               /\ At(board, row + pawnDirection, col + 1) = P("pawn", attackingColor)
      \/ \E o \in knightMoves :
            LET newRow == row + o[1]
                newCol == col + o[2]
            IN  /\ newRow >= 0 /\ newRow < 8 /\ newCol >= 0 /\ newCol < 8
                /\ board[newRow][newCol] = P("knight", attackingColor)
      \/ \E d \in directions :
            rayAttack(board, row, col, d[1], d[2], row + d[1], col + d[2], attackingColor)

\* the king's position: the first square in row-major order, <<-1, -1>> if none
findKingSquare(board, kingColor) ==
  LET ks == {s \in Squares : board[s[1]][s[2]] = P("king", kingColor)}
  IN  IF ks = {} THEN <<-1, -1>>
      ELSE CHOOSE s \in ks : \A t \in ks : s[1] < t[1] \/ (s[1] = t[1] /\ s[2] <= t[2])

isKingInCheck(board, kingColor) ==
  LET k == findKingSquare(board, kingColor)
  IN  isSquareAttacked(board, k[1], k[2], kingColor)

isValidKingMove(board, fromRow, fromCol, toRow, toCol, castlingRights, inCheck) ==
  LET rowDiff == Abs(toRow - fromRow)
      colDiff == Abs(toCol - fromCol)
      piece == board[fromRow][fromCol]
  IN  IF rowDiff <= 1 /\ colDiff <= 1 THEN TRUE
      ELSE IF ~IsNull(castlingRights) /\ ~inCheck /\ rowDiff = 0 /\ colDiff = 2
      THEN IF /\ toCol = fromCol + 2
              /\ \/ (piece.color = "white" /\ castlingRights.whiteKingside)
                 \/ (piece.color = "black" /\ castlingRights.blackKingside)
           THEN /\ At(board, fromRow, fromCol + 1) = Null
                /\ At(board, fromRow, fromCol + 2) = Null
                /\ ~isSquareAttacked(board, fromRow, fromCol + 1, piece.color)
                /\ ~isSquareAttacked(board, fromRow, fromCol + 2, piece.color)
           ELSE IF /\ toCol = fromCol - 2
                   /\ \/ (piece.color = "white" /\ castlingRights.whiteQueenside)
                      \/ (piece.color = "black" /\ castlingRights.blackQueenside)
           THEN /\ At(board, fromRow, fromCol - 1) = Null
                /\ At(board, fromRow, fromCol - 2) = Null
                /\ At(board, fromRow, fromCol - 3) = Null
                /\ ~isSquareAttacked(board, fromRow, fromCol - 1, piece.color)
                /\ ~isSquareAttacked(board, fromRow, fromCol - 2, piece.color)
           ELSE FALSE
      ELSE FALSE

\* isValidMove throws a TypeError where it reads a property of board[row] for
\* a row outside the board: board[fromRow][fromCol] on line 8, and
\* board[toRow][toCol] on line 12 once a piece was found on the source square
isValidMoveThrows(board, fromRow, fromCol, toRow, toCol) ==
  \/ fromRow \notin Idx
  \/ /\ Truthy(At(board, fromRow, fromCol))
     /\ toRow \notin Idx

\* the value isValidMove returns when it does not throw
isValidMove(board, fromRow, fromCol, toRow, toCol) ==
  LET piece == At(board, fromRow, fromCol)
      target == At(board, toRow, toCol)
  IN  IF ~Truthy(piece) THEN FALSE
      ELSE IF Truthy(target) /\ target.color = piece.color THEN FALSE
      ELSE CASE piece.type = "pawn" -> isValidPawnMove(board, fromRow, fromCol, toRow, toCol, NoLastMove)
             [] piece.type = "rook" -> isValidRookMove(board, fromRow, fromCol, toRow, toCol)
             [] piece.type = "knight" -> isValidKnightMove(fromRow, fromCol, toRow, toCol)
             [] piece.type = "bishop" -> isValidBishopMove(board, fromRow, fromCol, toRow, toCol)
             [] piece.type = "queen" -> isValidQueenMove(board, fromRow, fromCol, toRow, toCol)
             [] piece.type = "king" -> isValidKingMove(board, fromRow, fromCol, toRow, toCol, NoRights, FALSE)
             [] OTHER -> FALSE

\* wouldBeInCheck with the source square left as it was
wouldBeInCheckKeepsSource(board, fromRow, fromCol, toRow, toCol, kingColor) ==
  LET newBoard == [board EXCEPT ![toRow][toCol] = board[fromRow][fromCol]]
  IN  isKingInCheck(newBoard, kingColor)

\* Check if a move would put or leave the king in check
wouldBeInCheck(board, fromRow, fromCol, toRow, toCol, kingColor) ==
  LET copied == [board EXCEPT ![toRow][toCol] = board[fromRow][fromCol]]
      newBoard == [copied EXCEPT ![fromRow][fromCol] = Null]
  IN  isKingInCheck(newBoard, kingColor)

\* the loops of isCheckmate and isStalemate: some piece of kingColor has a
\* destination that isValidMove accepts and that does not leave the king in check
hasEscape(board, kingColor) ==
  \E fromRow \in Idx, fromCol \in Idx :
     /\ Truthy(board[fromRow][fromCol])
     /\ board[fromRow][fromCol].color = kingColor
     /\ \E toRow \in Idx, toCol \in Idx :
           /\ isValidMove(board, fromRow, fromCol, toRow, toCol)
           /\ ~wouldBeInCheck(board, fromRow, fromCol, toRow, toCol, kingColor)

\* isCheckmate with the wouldBeInCheck filter left out of its loop
isCheckmateUnfiltered(board, kingColor, castlingRights, lastMove) ==
  IF ~isKingInCheck(board, kingColor) THEN FALSE
  ELSE ~\E fromRow \in Idx, fromCol \in Idx :
          /\ Truthy(board[fromRow][fromCol])
          /\ board[fromRow][fromCol].color = kingColor
          /\ \E toRow \in Idx, toCol \in Idx : isValidMove(board, fromRow, fromCol, toRow, toCol)

isCheckmate(board, kingColor, castlingRights, lastMove) ==
  IF ~isKingInCheck(board, kingColor) THEN FALSE
  ELSE ~hasEscape(board, kingColor)

\* isStalemate without its first test, of the king being in check
isStalemateUngated(board, kingColor, castlingRights, lastMove) ==
  ~hasEscape(board, kingColor)

isStalemate(board, kingColor, castlingRights, lastMove) ==
  IF isKingInCheck(board, kingColor) THEN FALSE
  ELSE ~hasEscape(board, kingColor)

canPromotePawn(piece, toRow) ==
  IF piece.type # "pawn" THEN FALSE
  ELSE (piece.color = "white" /\ toRow = 0) \/ (piece.color = "black" /\ toRow = 7)

NoEdit == [none |-> TRUE]

getCastlingMove(board, fromRow, fromCol, toRow, toCol) ==
  IF board[fromRow][fromCol].type = "king" /\ Abs(toCol - fromCol) = 2
  THEN IF toCol > fromCol
       THEN [rookFromRow |-> fromRow, rookFromCol |-> 7, rookToRow |-> fromRow, rookToCol |-> fromCol + 1]
       ELSE [rookFromRow |-> fromRow, rookFromCol |-> 0, rookToRow |-> fromRow, rookToCol |-> fromCol - 1]
  ELSE NoEdit

getEnPassantCapture(board, fromRow, fromCol, toRow, toCol, lastMove) ==
  LET piece == board[fromRow][fromCol]
  IN  IF /\ piece.type = "pawn"
         /\ Abs(toCol - fromCol) = 1
         /\ board[toRow][toCol] = Null
         /\ ~IsNull(lastMove)
         /\ PieceTypeOf(lastMove.piece) = "pawn"
         /\ lastMove.to.row = fromRow
         /\ lastMove.to.col = toCol
         /\ Abs(lastMove.from.row - lastMove.to.row) = 2
      THEN [captureRow |-> fromRow, captureCol |-> toCol]
      ELSE NoEdit

\* updateCastlingRights starting from a fresh object of rights, not from a copy of its input
updateCastlingRightsFresh(castlingRights, piece, fromRow, fromCol) ==
  IF IsNull(castlingRights) THEN castlingRights
  ELSE LET kingMoved(c) == piece.type = "king" /\ piece.color = c
           rookLeft(c, r, col) == piece.type = "rook" /\ piece.color = c /\ fromRow = r /\ fromCol = col
       IN  [whiteKingside |-> ~kingMoved("white") /\ ~rookLeft("white", 7, 7),
            whiteQueenside |-> ~kingMoved("white") /\ ~rookLeft("white", 7, 0),
            blackKingside |-> ~kingMoved("black") /\ ~rookLeft("black", 0, 7),
            blackQueenside |-> ~kingMoved("black") /\ ~rookLeft("black", 0, 0)]

updateCastlingRights(castlingRights, piece, fromRow, fromCol) ==
  IF IsNull(castlingRights) THEN castlingRights
  ELSE LET kingMoved(c) == piece.type = "king" /\ piece.color = c
           rookLeft(c, r, col) == piece.type = "rook" /\ piece.color = c /\ fromRow = r /\ fromCol = col
       IN  [whiteKingside |-> castlingRights.whiteKingside /\ ~kingMoved("white") /\ ~rookLeft("white", 7, 7),
            whiteQueenside |-> castlingRights.whiteQueenside /\ ~kingMoved("white") /\ ~rookLeft("white", 7, 0),
            blackKingside |-> castlingRights.blackKingside /\ ~kingMoved("black") /\ ~rookLeft("black", 0, 7),
            blackQueenside |-> castlingRights.blackQueenside /\ ~kingMoved("black") /\ ~rookLeft("black", 0, 0)]

\* Castling rights as objects: the store is the sequence of the rights objects
\* allocated so far and a reference is an index into it, 0 for null.
\* newRights bound to the argument itself, no object allocated
aliasRights(store, ref) == [store |-> store, ref |-> ref]

\* const newRights = { ...castlingRights }: a new object with the same flags
spreadRights(store, ref) == [store |-> Append(store, store[ref]), ref |-> Len(store) + 1]

\* the store updateCastlingRights leaves behind and the reference it returns
updateCastlingRightsStore(store, ref, piece, fromRow, fromCol) ==
  IF ref = 0 THEN [store |-> store, ref |-> ref]
  ELSE LET copy == spreadRights(store, ref)
           newRights == copy.ref
           cleared(st, flags) == [st EXCEPT ![newRights] = [f \in DOMAIN st[newRights] |->
                                                             IF f \in flags THEN FALSE ELSE st[newRights][f]]]
           kingFlags == IF piece.type # "king" THEN {}
                        ELSE IF piece.color = "white" THEN {"whiteKingside", "whiteQueenside"}
                        ELSE {"blackKingside", "blackQueenside"}
           rookFlags == IF piece.type # "rook" THEN {}
                        ELSE IF piece.color = "white"
                        THEN (IF fromRow = 7 /\ fromCol = 0 THEN {"whiteQueenside"} ELSE {})
                             \cup (IF fromRow = 7 /\ fromCol = 7 THEN {"whiteKingside"} ELSE {})
                        ELSE (IF fromRow = 0 /\ fromCol = 0 THEN {"blackQueenside"} ELSE {})
                             \cup (IF fromRow = 0 /\ fromCol = 7 THEN {"blackKingside"} ELSE {})
       IN  [store |-> cleared(cleared(copy.store, kingFlags), rookFlags), ref |-> newRights]

(***************************************************************************)
(* aiPersonalities.js: the registry                                        *)
(***************************************************************************)
PersonalityNames == {"standard", "aggressive", "defensive", "positional", "creative", "beginner"}

\* names AI_PERSONALITIES, an object literal, inherits from Object.prototype: the
\* lookup of such a name yields a function or an object, which is truthy and has
\* none of the members of a personality
InheritedNames == {"constructor", "toString", "valueOf", "hasOwnProperty", "__proto__"}

\* the lookup with every name that is not a key resolved to the first key after standard
resolveToAggressive(personality) == IF personality \in PersonalityNames THEN personality ELSE "aggressive"

\* AI_PERSONALITIES[personality] || AI_PERSONALITIES.standard
resolvePersonality(personality) ==
  IF personality \in PersonalityNames THEN personality
  ELSE IF personality \in InheritedNames THEN "Object.prototype"
  ELSE "standard"

BASE_PIECE_VALUES == [pawn |-> 10, knight |-> 30, bishop |-> 30, rook |-> 50, queen |-> 90, king |-> 900]

\* defensive: 5 for each pawn of the colour on the three squares in front of its
\* king, in half points; the local isSquareAttacked and isSquareProtected of
\* aiPersonalities.js return false, so no piece is counted protected or exposed
pawnShield(board, color) ==
  LET kings == {sq \in Squares : board[sq[1]][sq[2]] = P("king", color)}
  IN  IF kings = {} THEN 0
      ELSE LET king == CHOOSE sq \in kings : \A other \in kings : 8 * sq[1] + sq[2] <= 8 * other[1] + other[2]
               shieldRow == king[1] + (IF color = "white" THEN -1 ELSE 1)
           IN  10 * Cardinality({offset \in {-1, 0, 1} :
                                   /\ king[2] + offset \in Idx
                                   /\ shieldRow \in Idx
                                   /\ board[shieldRow][king[2] + offset] = P("pawn", color)})

\* positional: 5 for each centre square held, less 5 for each knight or bishop of
\* the colour on its back rank, in half points; no square counts as attacked
positionalBonus(board, color) ==
  LET backRank == IF color = "white" THEN 7 ELSE 0
  IN  10 * Cardinality({sq \in {<<3, 3>>, <<3, 4>>, <<4, 3>>, <<4, 4>>} :
                          Truthy(board[sq[1]][sq[2]]) /\ board[sq[1]][sq[2]].color = color})
      - 10 * Cardinality({col \in Idx : board[backRank][col] \in {P("knight", color), P("bishop", color)}})

\* the personality's evaluationModifier, for the personalities that draw no
\* random number; standard returns the base evaluation, and a personality
\* without the member leaves the score as it is
evaluationModifier(aiPersonality, board, color, score) ==
  CASE aiPersonality = "standard" -> score
    [] aiPersonality = "Object.prototype" -> score
    [] aiPersonality = "aggressive" -> score
    [] aiPersonality = "defensive" -> score + pawnShield(board, color)
    [] aiPersonality = "positional" -> score + positionalBonus(board, color)

\* getPieceValue: BASE_PIECE_VALUES[pieceType] || 0
getPieceValue(pieceType) ==
  IF pieceType \in DOMAIN BASE_PIECE_VALUES THEN BASE_PIECE_VALUES[pieceType] ELSE 0

\* moves.splice(i, 1), with i counted from 1
splice(moves, i) == SubSeq(moves, 1, i - 1) \o SubSeq(moves, i + 1, Len(moves))

\* moves.sort(compare) for a comparator that orders by a key: the moves in the
\* order of their keys, moves of equal keys in the order they had (the sort is stable)
RECURSIVE sortByKeys(_, _)
sortByKeys(moves, keys) ==
  IF Len(moves) = 0 THEN <<>>
  ELSE LET i == CHOOSE i \in 1..Len(keys) :
                   \A j \in 1..Len(keys) : keys[i] < keys[j] \/ (keys[i] = keys[j] /\ i <= j)
       IN  <<moves[i]>> \o sortByKeys(splice(moves, i), splice(keys, i))

\* aggressive: captures before the other moves, captures of higher value first
aggressiveKey(move) ==
  IF Truthy(move.capturedPiece) THEN -getPieceValue(move.capturedPiece.type) ELSE 1

\* defensive: captures after the other moves
defensiveKey(move) == IF Truthy(move.capturedPiece) THEN 1 ELSE 0

\* positional: getCenterDistance of the destination, as four times its square
positionalKey(move) == (2 * move.toRow - 7) * (2 * move.toRow - 7) + (2 * move.toCol - 7) * (2 * move.toCol - 7)

\* moves.indexOf(move), counted from 1
indexOf(moves, move) ==
  CHOOSE i \in 1..Len(moves) : moves[i] = move /\ \A j \in 1..(i - 1) : moves[j] # move

\* moves.unshift(randomMove) alone
unshiftOnly(moves, randomMove) == <<randomMove>> \o moves

\* moves.splice(moves.indexOf(randomMove), 1); moves.unshift(randomMove)
moveToFront(moves, randomMove) == <<randomMove>> \o splice(moves, indexOf(moves, randomMove))

\* the personality's movePreference for the personalities that draw no random
\* number; standard returns the list as it is
movePreference(aiPersonality, moves) ==
  CASE aiPersonality = "standard" -> moves
    [] aiPersonality = "Object.prototype" -> moves
    [] aiPersonality = "aggressive" -> sortByKeys(moves, [i \in 1..Len(moves) |-> aggressiveKey(moves[i])])
    [] aiPersonality = "defensive" -> sortByKeys(moves, [i \in 1..Len(moves) |-> defensiveKey(moves[i])])
    [] aiPersonality = "positional" -> sortByKeys(moves, [i \in 1..Len(moves) |-> positionalKey(moves[i])])

\* the personality's movePreference when the two calls of Math.random() return
\* random[1] / 10 and random[2] / 10
movePreferenceDrawn(aiPersonality, moves, random) ==
  CASE aiPersonality = "creative" ->
         IF 10 * random[1] < 20 /\ Len(moves) > 1
         THEN LET midpoint == Len(moves) \div 2
                  topMoves == SubSeq(moves, 1, midpoint)
                  randomIndex == (random[2] * Len(topMoves)) \div 10
              IN  moveToFront(moves, topMoves[randomIndex + 1])
         ELSE moves
    [] aiPersonality = "beginner" ->
         IF 100 * random[1] < 250 /\ Len(moves) > 3
         THEN LET midpoint == Len(moves) \div 2
                  suboptimalMoves == SubSeq(moves, midpoint + 1, Len(moves))
                  randomIndex == (random[2] * Len(suboptimalMoves)) \div 10
              IN  moveToFront(moves, suboptimalMoves[randomIndex + 1])
         ELSE moves
    [] OTHER -> movePreference(aiPersonality, moves)

\* ten times the personality's difficultyMultiplier
difficultyMultiplier10(aiPersonality) ==
  CASE aiPersonality = "standard" -> 10
    [] aiPersonality = "aggressive" -> 11
    [] aiPersonality = "defensive" -> 10
    [] aiPersonality = "positional" -> 12
    [] aiPersonality = "creative" -> 10
    [] aiPersonality = "beginner" -> 7
    [] aiPersonality = "Object.prototype" -> 0

(***************************************************************************)
(* aiPlayer.js                                                             *)
(***************************************************************************)
DEFAULT_PIECE_VALUES == [pawn |-> 10, knight |-> 30, bishop |-> 30, rook |-> 50, queen |-> 90, king |-> 900]

\* POSITION_BONUSES, every entry doubled; table row r is sequence element r + 1
POSITION_BONUSES ==
  [pawn |->
    << <<  0,   0,   0,   0,   0,   0,   0,   0>>,
       << 10,  10,  10,  10,  10,  10,  10,  10>>,
       <<  2,   2,   4,   6,   6,   4,   2,   2>>,
       <<  1,   1,   2,   5,   5,   2,   1,   1>>,
       <<  0,   0,   0,   4,   4,   0,   0,   0>>,
       <<  1,  -1,  -2,   0,   0,  -2,  -1,   1>>,
       <<  1,   2,   2,  -4,  -4,   2,   2,   1>>,
       <<  0,   0,   0,   0,   0,   0,   0,   0>> >>,
   knight |->
    << <<-10,  -8,  -6,  -6,  -6,  -6,  -8, -10>>,
       << -8,  -4,   0,   0,   0,   0,  -4,  -8>>,
       << -6,   0,   2,   3,   3,   2,   0,  -6>>,
       << -6,   1,   3,   4,   4,   3,   1,  -6>>,
       << -6,   0,   3,   4,   4,   3,   0,  -6>>,
       << -6,   1,   2,   3,   3,   2,   1,  -6>>,
       << -8,  -4,   0,   1,   1,   0,  -4,  -8>>,
       <<-10,  -8,  -6,  -6,  -6,  -6,  -8, -10>> >>,
   bishop |->
    << << -4,  -2,  -2,  -2,  -2,  -2,  -2,  -4>>,
       << -2,   0,   0,   0,   0,   0,   0,  -2>>,
       << -2,   0,   1,   2,   2,   1,   0,  -2>>,
       << -2,   1,   1,   2,   2,   1,   1,  -2>>,
       << -2,   0,   2,   2,   2,   2,   0,  -2>>,
       << -2,   2,   2,   2,   2,   2,   2,  -2>>,
       << -2,   1,   0,   0,   0,   0,   1,  -2>>,
       << -4,  -2,  -2,  -2,  -2,  -2,  -2,  -4>> >>,
   rook |->
    << <<  0,   0,   0,   0,   0,   0,   0,   0>>,
       <<  1,   2,   2,   2,   2,   2,   2,   1>>,
       << -1,   0,   0,   0,   0,   0,   0,  -1>>,
       << -1,   0,   0,   0,   0,   0,   0,  -1>>,
       << -1,   0,   0,   0,   0,   0,   0,  -1>>,
       << -1,   0,   0,   0,   0,   0,   0,  -1>>,
       << -1,   0,   0,   0,   0,   0,   0,  -1>>,
       <<  0,   0,   0,   1,   1,   0,   0,   0>> >>,
   queen |->
    << << -4,  -2,  -2,  -1,  -1,  -2,  -2,  -4>>,
       << -2,   0,   0,   0,   0,   0,   0,  -2>>,
       << -2,   0,   1,   1,   1,   1,   0,  -2>>,
       << -1,   0,   1,   1,   1,   1,   0,  -1>>,
       <<  0,   0,   1,   1,   1,   1,   0,  -1>>,
       << -2,   1,   1,   1,   1,   1,   0,  -2>>,
       << -2,   0,   1,   0,   0,   0,   0,  -2>>,
       << -4,  -2,  -2,  -1,  -1,  -2,  -2,  -4>> >>,
   king |->
    << << -6,  -8,  -8, -10, -10,  -8,  -8,  -6>>,
       << -6,  -8,  -8, -10, -10,  -8,  -8,  -6>>,
       << -6,  -8,  -8, -10, -10,  -8,  -8,  -6>>,
       << -6,  -8,  -8, -10, -10,  -8,  -8,  -6>>,
       << -4,  -6,  -6,  -8,  -8,  -6,  -6,  -4>>,
       << -2,  -4,  -4,  -4,  -4,  -4,  -4,  -2>>,
       <<  4,   4,   0,   0,   0,   0,   4,   4>>,
       <<  4,   6,   2,   0,   0,   2,   6,   4>> >>]

\* the pieceValues of a personality
pieceValuesOf(aiPersonality) ==
  CASE aiPersonality = "standard" -> BASE_PIECE_VALUES
    [] aiPersonality = "aggressive" -> [BASE_PIECE_VALUES EXCEPT !.knight = 32, !.bishop = 32, !.rook = 55, !.queen = 95]
    [] aiPersonality = "defensive" -> [BASE_PIECE_VALUES EXCEPT !.pawn = 12, !.bishop = 28, !.knight = 28, !.king = 950]
    [] aiPersonality = "positional" -> BASE_PIECE_VALUES
    [] aiPersonality = "creative" -> [BASE_PIECE_VALUES EXCEPT !.knight = 33, !.bishop = 29]
    [] aiPersonality = "beginner" -> BASE_PIECE_VALUES
    [] aiPersonality = "Object.prototype" -> DEFAULT_PIECE_VALUES

\* the value of a square with the position bonus left out for the other colour
squareValueOwnBonusOnly(board, row, col, color, pieceValues) ==
  LET piece == board[row][col]
  IN  IF ~Truthy(piece) THEN 0
      ELSE LET materialValue == IF pieceValues[piece.type] # 0 THEN pieceValues[piece.type] ELSE DEFAULT_PIECE_VALUES[piece.type]
               positionRow == IF piece.color = "white" THEN row ELSE 7 - row
               bonus == POSITION_BONUSES[piece.type][positionRow + 1][col + 1]
           IN  IF piece.color = color THEN 2 * materialValue + bonus ELSE -(2 * materialValue)

\* the signed value of the piece on square (row, col), in half points
squareValue(board, row, col, color, pieceValues) ==
  LET piece == board[row][col]
  IN  IF ~Truthy(piece) THEN 0
      ELSE LET materialValue == IF pieceValues[piece.type] # 0 THEN pieceValues[piece.type] ELSE DEFAULT_PIECE_VALUES[piece.type]
               positionRow == IF piece.color = "white" THEN row ELSE 7 - row
               positionBonus == POSITION_BONUSES[piece.type][positionRow + 1][col + 1]
               value == 2 * materialValue + positionBonus
           IN  IF piece.color = color THEN value ELSE -value

RECURSIVE boardScore(_, _, _, _)
boardScore(board, k, color, pieceValues) ==
  IF k = 64 THEN 0
  ELSE squareValue(board, k \div 8, k % 8, color, pieceValues) + boardScore(board, k + 1, color, pieceValues)

evaluateBoard(board, color, personality) ==
  LET aiPersonality == resolvePersonality(personality)
      pieceValues == pieceValuesOf(aiPersonality)
      score == boardScore(board, 0, color, pieceValues)
  IN  evaluationModifier(aiPersonality, board, color, score)

\* the (from, to) pairs getAllValidMoves pushes, each as the number
\* 512 fromRow + 64 fromCol + 8 toRow + toCol, which orders them as the loops do
validMoveKeys(board, color) ==
  UNION { { 512 * f[1] + 64 * f[2] + 8 * t[1] + t[2] :
              t \in { t \in Squares : /\ isValidMove(board, f[1], f[2], t[1], t[2])
                                        /\ ~wouldBeInCheck(board, f[1], f[2], t[1], t[2], color) } } :
          f \in { f \in Squares : Truthy(board[f[1]][f[2]]) /\ board[f[1]][f[2]].color = color } }

RECURSIVE ascending(_)
ascending(S) ==
  IF S = {} THEN <<>>
  ELSE LET m == CHOOSE x \in S : \A y \in S : x <= y
       IN  <<m>> \o ascending(S \ {m})

moveOfKey(board, k) ==
  LET fromRow == k \div 512
      fromCol == (k \div 64) % 8
      toRow == (k \div 8) % 8
      toCol == k % 8
  IN  [fromRow |-> fromRow, fromCol |-> fromCol, toRow |-> toRow, toCol |-> toCol,
       piece |-> board[fromRow][fromCol], capturedPiece |-> board[toRow][toCol]]

getAllValidMoves(board, color, castlingRights, lastMove) ==
  LET keys == ascending(validMoveKeys(board, color))
  IN  [i \in 1..Len(keys) |-> moveOfKey(board, keys[i])]

\* makeMove that also brings the rook over when a king moves two columns
makeMoveCastles(board, move) ==
  LET copied == [board EXCEPT ![move.toRow][move.toCol] = board[move.fromRow][move.fromCol]]
      cleared == [copied EXCEPT ![move.fromRow][move.fromCol] = Null]
      piece == board[move.fromRow][move.fromCol]
  IN  IF piece # Null /\ piece.type = "king" /\ Abs(move.toCol - move.fromCol) = 2
      THEN LET rookCol == IF move.toCol > move.fromCol THEN 7 ELSE 0
               rookTo == IF move.toCol > move.fromCol THEN move.toCol - 1 ELSE move.toCol + 1
           IN  [[cleared EXCEPT ![move.fromRow][rookTo] = cleared[move.fromRow][rookCol]]
                  EXCEPT ![move.fromRow][rookCol] = Null]
      ELSE cleared

makeMove(board, move) ==
  LET copied == [board EXCEPT ![move.toRow][move.toCol] = board[move.fromRow][move.fromCol]]
  IN  [copied EXCEPT ![move.fromRow][move.fromCol] = Null]

\* a result without a move: { score }
NoMove == [none |-> TRUE]

Infinity == 1000000

MateScore == 10000

Max(a, b) == IF a > b THEN a ELSE b

Min(a, b) == IF a < b THEN a ELSE b

RECURSIVE minimax(_, _, _, _, _, _, _, _, _)
RECURSIVE maximize(_, _, _, _, _, _, _, _, _, _, _)
RECURSIVE minimize(_, _, _, _, _, _, _, _, _, _, _)
RECURSIVE minimizeCutsOnAlpha(_, _, _, _, _, _, _, _, _, _, _)

\* the loop of the maximizing branch from the i-th move on
maximize(board, moves, i, depth, alpha, beta, color, castlingRights, personality, maxEval, bestMove) ==
  IF i > Len(moves) THEN [move |-> bestMove, score |-> maxEval]
  ELSE LET move == moves[i]
           newBoard == makeMove(board, move)
           evalResult == minimax(newBoard, depth - 1, alpha, beta, FALSE, color, castlingRights, move, personality)
           improved == evalResult.score > maxEval
           maxEval2 == IF improved THEN evalResult.score ELSE maxEval
           bestMove2 == IF improved THEN move ELSE bestMove
           alpha2 == Max(alpha, evalResult.score)
       IN  IF beta <= alpha2 THEN [move |-> bestMove2, score |-> maxEval2]
           ELSE maximize(board, moves, i + 1, depth, alpha2, beta, color, castlingRights, personality, maxEval2, bestMove2)

\* the minimizing loop with its cutoff test turned round: alpha <= beta
minimizeCutsOnAlpha(board, moves, i, depth, alpha, beta, color, castlingRights, personality, minEval, bestMove) ==
  IF i > Len(moves) THEN [move |-> bestMove, score |-> minEval]
  ELSE LET move == moves[i]
           newBoard == makeMove(board, move)
           evalResult == minimax(newBoard, depth - 1, alpha, beta, TRUE, color, castlingRights, move, personality)
           improved == evalResult.score < minEval
           minEval2 == IF improved THEN evalResult.score ELSE minEval
           bestMove2 == IF improved THEN move ELSE bestMove
           beta2 == Min(beta, evalResult.score)
       IN  IF alpha <= beta2 THEN [move |-> bestMove2, score |-> minEval2]
           ELSE minimizeCutsOnAlpha(board, moves, i + 1, depth, alpha, beta2, color, castlingRights, personality, minEval2, bestMove2)

\* the loop of the minimizing branch from the i-th move on
minimize(board, moves, i, depth, alpha, beta, color, castlingRights, personality, minEval, bestMove) ==
  IF i > Len(moves) THEN [move |-> bestMove, score |-> minEval]
  ELSE LET move == moves[i]
           newBoard == makeMove(board, move)
           evalResult == minimax(newBoard, depth - 1, alpha, beta, TRUE, color, castlingRights, move, personality)
           improved == evalResult.score < minEval
           minEval2 == IF improved THEN evalResult.score ELSE minEval
           bestMove2 == IF improved THEN move ELSE bestMove
           beta2 == Min(beta, evalResult.score)
       IN  IF beta2 <= alpha THEN [move |-> bestMove2, score |-> minEval2]
           ELSE minimize(board, moves, i + 1, depth, alpha, beta2, color, castlingRights, personality, minEval2, bestMove2)

\* minimax with the two mate scores exchanged
minimaxMateSwapped(board, depth, alpha, beta, maximizingPlayer, color, castlingRights, lastMove, personality) ==
  IF depth = 0 THEN [move |-> NoMove, score |-> evaluateBoard(board, color, personality)]
  ELSE LET currentColor == IF maximizingPlayer THEN color ELSE (IF color = "white" THEN "black" ELSE "white")
       IN  IF isCheckmate(board, currentColor, castlingRights, lastMove)
           THEN [move |-> NoMove, score |-> IF maximizingPlayer THEN 2 * MateScore ELSE -(2 * MateScore)]
           ELSE IF isStalemate(board, currentColor, castlingRights, lastMove)
           THEN [move |-> NoMove, score |-> 0]
           ELSE LET found == getAllValidMoves(board, currentColor, castlingRights, lastMove)
                IN  IF Len(found) = 0
                    THEN [move |-> NoMove, score |-> evaluateBoard(board, color, personality)]
                    ELSE LET moves == movePreference(resolvePersonality(personality), found)
                         IN  IF maximizingPlayer
                             THEN maximize(board, moves, 1, depth, alpha, beta, color, castlingRights, personality, -Infinity, NoMove)
                             ELSE minimize(board, moves, 1, depth, alpha, beta, color, castlingRights, personality, Infinity, NoMove)

minimax(board, depth, alpha, beta, maximizingPlayer, color, castlingRights, lastMove, personality) ==
  IF depth = 0 THEN [move |-> NoMove, score |-> evaluateBoard(board, color, personality)]
  ELSE LET currentColor == IF maximizingPlayer THEN color ELSE (IF color = "white" THEN "black" ELSE "white")
       IN  IF isCheckmate(board, currentColor, castlingRights, lastMove)
           THEN [move |-> NoMove, score |-> IF maximizingPlayer THEN -(2 * MateScore) ELSE 2 * MateScore]
           ELSE IF isStalemate(board, currentColor, castlingRights, lastMove)
           THEN [move |-> NoMove, score |-> 0]
           ELSE LET found == getAllValidMoves(board, currentColor, castlingRights, lastMove)
                IN  IF Len(found) = 0
                    THEN [move |-> NoMove, score |-> evaluateBoard(board, color, personality)]
                    ELSE LET moves == movePreference(resolvePersonality(personality), found)
                         IN  IF maximizingPlayer
                             THEN maximize(board, moves, 1, depth, alpha, beta, color, castlingRights, personality, -Infinity, NoMove)
                             ELSE minimize(board, moves, 1, depth, alpha, beta, color, castlingRights, personality, Infinity, NoMove)

\* the search depth of a difficulty tier
baseDepth(difficulty) ==
  CASE difficulty = "easy" -> 2
    [] difficulty = "medium" -> 3
    [] difficulty = "hard" -> 4
    [] OTHER -> 3

\* the scaled depth cut off instead of rounded
searchDepthTruncated(difficulty, personality) ==
  LET m10 == difficultyMultiplier10(resolvePersonality(personality))
  IN  IF m10 = 0 THEN baseDepth(difficulty)
      ELSE Max(1, (baseDepth(difficulty) * m10) \div 10)

\* Math.max(1, Math.round(depth * difficultyMultiplier)) when the personality
\* has a difficultyMultiplier, the depth of the tier when it has none
searchDepth(difficulty, personality) ==
  LET m10 == difficultyMultiplier10(resolvePersonality(personality))
  IN  IF m10 = 0 THEN baseDepth(difficulty)
      ELSE Max(1, (2 * baseDepth(difficulty) * m10 + 10) \div 20)

\* getBestMove calling minimax with maximizingPlayer false
getBestMoveMinimizing(board, color, castlingRights, lastMove, difficulty, personality) ==
  minimax(board, searchDepth(difficulty, personality), -Infinity, Infinity, FALSE, color, castlingRights, lastMove, personality).move

getBestMove(board, color, castlingRights, lastMove, difficulty, personality) ==
  minimax(board, searchDepth(difficulty, personality), -Infinity, Infinity, TRUE, color, castlingRights, lastMove, personality).move

(***************************************************************************)
(* Boards as objects.  A JavaScript board is an array of eight row arrays; *)
(* the store is the sequence of the row arrays allocated so far and a      *)
(* board is the addresses of its eight rows.  The operators below give the *)
(* store each function leaves behind; what the functions return is given   *)
(* by the operators above, applied to the board the addresses denote.      *)
(***************************************************************************)
\* the store holding the rows of one board, and that board
storeOf(board) == [a \in 1..8 |-> board[a - 1]]

callerBoard == [r \in Idx |-> r + 1]

\* the board an array of row addresses denotes
deref(store, ref) == [r \in Idx |-> store[ref[r]]]

\* board.map(row => row): a new outer array holding the rows of board themselves
mapSameRows(store, ref) == [store |-> store, ref |-> ref]

\* board.map(row => [...row]): eight new row arrays, each a copy of a row of board
mapSpread(store, ref) ==
  [store |-> store \o [a \in 1..8 |-> store[ref[a - 1]]],
   ref |-> [r \in Idx |-> Len(store) + r + 1]]

\* the copy and the two assignments that makeMove and wouldBeInCheck share
moveOnCopy(store, ref, fromRow, fromCol, toRow, toCol) ==
  LET newBoard == mapSpread(store, ref)
      placed == [newBoard.store EXCEPT ![newBoard.ref[toRow]][toCol] =
                                          newBoard.store[newBoard.ref[fromRow]][fromCol]]
  IN  [store |-> [placed EXCEPT ![newBoard.ref[fromRow]][fromCol] = Null], ref |-> newBoard.ref]

\* the store once a call has returned: the rows it allocated and did not return are garbage
released(before, after) == SubSeq(after, 1, Len(before))

\* makeMove returns newBoard
makeMoveStore(store, ref, move) ==
  moveOnCopy(store, ref, move.fromRow, move.fromCol, move.toRow, move.toCol)

wouldBeInCheckStore(store, ref, fromRow, fromCol, toRow, toCol) ==
  released(store, moveOnCopy(store, ref, fromRow, fromCol, toRow, toCol).store)

\* one pass of the innermost loop body, for the piece on square f = 8 fromRow +
\* fromCol and the destination t = 8 toRow + toCol: the store it leaves, and
\* whether isCheckmate and isStalemate return there, at a move passing both tests
visitPair(store, ref, f, t, color, stopAtFirst) ==
  IF isValidMove(deref(store, ref), f \div 8, f % 8, t \div 8, t % 8)
  THEN [store |-> wouldBeInCheckStore(store, ref, f \div 8, f % 8, t \div 8, t % 8),
        stopped |-> stopAtFirst /\ ~wouldBeInCheck(deref(store, ref), f \div 8, f % 8, t \div 8, t % 8, color)]
  ELSE [store |-> store, stopped |-> FALSE]

\* the loops over toRow and toCol, for the destinations lo..hi in their order
RECURSIVE scanTo(_, _, _, _, _, _, _)
scanTo(store, ref, f, lo, hi, color, stopAtFirst) ==
  IF lo = hi THEN visitPair(store, ref, f, lo, color, stopAtFirst)
  ELSE LET mid == (lo + hi) \div 2
           left == scanTo(store, ref, f, lo, mid, color, stopAtFirst)
       IN  IF left.stopped THEN left
           ELSE scanTo(left.store, ref, f, mid + 1, hi, color, stopAtFirst)

\* the loops over fromRow and fromCol, for the squares lo..hi in their order
RECURSIVE scanFrom(_, _, _, _, _, _)
scanFrom(store, ref, lo, hi, color, stopAtFirst) ==
  IF lo = hi
  THEN LET piece == store[ref[lo \div 8]][lo % 8]
       IN  IF Truthy(piece) /\ piece.color = color
           THEN scanTo(store, ref, lo, 0, 63, color, stopAtFirst)
           ELSE [store |-> store, stopped |-> FALSE]
  ELSE LET mid == (lo + hi) \div 2
           left == scanFrom(store, ref, lo, mid, color, stopAtFirst)
       IN  IF left.stopped THEN left
           ELSE scanFrom(left.store, ref, mid + 1, hi, color, stopAtFirst)

getAllValidMovesStore(store, ref, color) == scanFrom(store, ref, 0, 63, color, FALSE).store

isCheckmateStore(store, ref, kingColor) ==
  IF ~isKingInCheck(deref(store, ref), kingColor) THEN store
  ELSE scanFrom(store, ref, 0, 63, kingColor, TRUE).store

isStalemateStore(store, ref, kingColor) ==
  IF isKingInCheck(deref(store, ref), kingColor) THEN store
  ELSE scanFrom(store, ref, 0, 63, kingColor, TRUE).store

RECURSIVE minimaxStore(_, _, _, _, _, _, _, _, _, _)
RECURSIVE visitStore(_, _, _, _, _, _, _, _, _, _, _)

\* the loop of either branch of minimax from the i-th move on: makeMove, the
\* recursive call on newBoard, the cutoff
visitStore(store, ref, moves, i, depth, alpha, beta, maximizingPlayer, color, castlingRights, personality) ==
  IF i > Len(moves) THEN store
  ELSE LET move == moves[i]
           newBoard == makeMoveStore(store, ref, move)
           evalResult == minimax(deref(newBoard.store, newBoard.ref), depth - 1, alpha, beta, ~maximizingPlayer,
                                 color, castlingRights, move, personality)
           after == released(store, minimaxStore(newBoard.store, newBoard.ref, depth - 1, alpha, beta,
                                                 ~maximizingPlayer, color, castlingRights, move, personality))
           alpha2 == IF maximizingPlayer THEN Max(alpha, evalResult.score) ELSE alpha
           beta2 == IF maximizingPlayer THEN beta ELSE Min(beta, evalResult.score)
       IN  IF beta2 <= alpha2 THEN after
           ELSE visitStore(after, ref, moves, i + 1, depth, alpha2, beta2, maximizingPlayer, color, castlingRights, personality)

minimaxStore(store, ref, depth, alpha, beta, maximizingPlayer, color, castlingRights, lastMove, personality) ==
  IF depth = 0 THEN store
  ELSE LET currentColor == IF maximizingPlayer THEN color ELSE (IF color = "white" THEN "black" ELSE "white")
           tested == isCheckmateStore(store, ref, currentColor)
       IN  IF isCheckmate(deref(store, ref), currentColor, castlingRights, lastMove) THEN tested
           ELSE LET retested == isStalemateStore(tested, ref, currentColor)
                IN  IF isStalemate(deref(tested, ref), currentColor, castlingRights, lastMove) THEN retested
                    ELSE LET found == getAllValidMoves(deref(retested, ref), currentColor, castlingRights, lastMove)
                             listed == getAllValidMovesStore(retested, ref, currentColor)
                         IN  IF Len(found) = 0 THEN listed
                             ELSE visitStore(listed, ref, movePreference(resolvePersonality(personality), found), 1,
                                             depth, alpha, beta, maximizingPlayer, color, castlingRights, personality)

(***************************************************************************)
(* App.js: the game state and its handlers                                 *)
(***************************************************************************)
NoSelection == [none |-> TRUE]

NoPromotion == [none |-> TRUE]

NoTimer == [none |-> TRUE]

backRankTypes == <<"rook", "knight", "bishop", "queen", "king", "bishop", "knight", "rook">>

initializeBoard ==
  [r \in Idx |->
     [c \in Idx |->
        CASE r = 0 -> P(backRankTypes[c + 1], "black")
          [] r = 1 -> P("pawn", "black")
          [] r = 6 -> P("pawn", "white")
          [] r = 7 -> P(backRankTypes[c + 1], "white")
          [] OTHER -> Null]]

AllRights == [whiteKingside |-> TRUE, whiteQueenside |-> TRUE, blackKingside |-> TRUE, blackQueenside |-> TRUE]

\* useState(...) of gameState, which resetBoard installs again; moveHistory,
\* which no handler reads, is left out
\* the settings App starts with; timerEnabled and timeLimit are left out
InitialGameSettings ==
  [playerColor |-> "white", opponent |-> "human", aiDifficulty |-> "medium", aiPersonality |-> "standard",
   voiceCommandsEnabled |-> FALSE]

InitialGameState ==
  [board |-> initializeBoard,
   currentPlayer |-> "white",
   selectedPiece |-> NoSelection,
   gameStatus |-> "active",
   lastMove |-> NoLastMove,
   castlingRights |-> AllRights,
   promotionPending |-> NoPromotion]

\* the state updateGameStatus leaves, applied to the state prevState
updateGameStatus(prevState, board, currentPlayer) ==
  LET nextPlayer == IF currentPlayer = "white" THEN "black" ELSE "white"
  IN  IF isKingInCheck(board, nextPlayer)
      THEN IF isCheckmate(board, nextPlayer, prevState.castlingRights, prevState.lastMove)
           THEN [prevState EXCEPT !.gameStatus = "checkmate"]
           ELSE [prevState EXCEPT !.gameStatus = "check"]
      ELSE IF isStalemate(board, nextPlayer, prevState.castlingRights, prevState.lastMove)
           THEN [prevState EXCEPT !.gameStatus = "stalemate"]
           ELSE prevState

\* handleMove passes its three early returns
moveAccepted(gs, fromRow, fromCol, toRow, toCol) ==
  LET piece == gs.board[fromRow][fromCol]
  IN  /\ Truthy(piece)
      /\ piece.color = gs.currentPlayer
      /\ isValidMove(gs.board, fromRow, fromCol, toRow, toCol)
      /\ ~wouldBeInCheck(gs.board, fromRow, fromCol, toRow, toCol, gs.currentPlayer)

\* newBoard of handleMove: the castling rook, the en-passant capture, the move
movedBoard(gs, fromRow, fromCol, toRow, toCol) ==
  LET board == gs.board
      piece == board[fromRow][fromCol]
      castlingMove == getCastlingMove(board, fromRow, fromCol, toRow, toCol)
      afterRook == IF IsNull(castlingMove) THEN board
                   ELSE [[board EXCEPT ![castlingMove.rookToRow][castlingMove.rookToCol] =
                                          board[castlingMove.rookFromRow][castlingMove.rookFromCol]]
                                EXCEPT ![castlingMove.rookFromRow][castlingMove.rookFromCol] = Null]
      enPassantCapture == getEnPassantCapture(board, fromRow, fromCol, toRow, toCol, gs.lastMove)
      afterCapture == IF IsNull(enPassantCapture) THEN afterRook
                      ELSE [afterRook EXCEPT ![enPassantCapture.captureRow][enPassantCapture.captureCol] = Null]
      placed == [afterCapture EXCEPT ![toRow][toCol] = piece]
  IN  [placed EXCEPT ![fromRow][fromCol] = Null]

\* handleMove reaches its promotion branch
movePromotes(gs, fromRow, fromCol, toRow, toCol) ==
  /\ moveAccepted(gs, fromRow, fromCol, toRow, toCol)
  /\ canPromotePawn(gs.board[fromRow][fromCol], toRow)

\* the state handleMove installs with setGameState (gs itself on an early return)
handleMove(gs, fromRow, fromCol, toRow, toCol) ==
  LET piece == gs.board[fromRow][fromCol]
      newBoard == movedBoard(gs, fromRow, fromCol, toRow, toCol)
      newMove == [piece |-> [str |-> piece.type], color |-> piece.color,
                  from |-> [row |-> fromRow, col |-> fromCol], to |-> [row |-> toRow, col |-> toCol]]
      nextPlayer == IF gs.currentPlayer = "white" THEN "black" ELSE "white"
  IN  IF ~moveAccepted(gs, fromRow, fromCol, toRow, toCol) THEN gs
      ELSE IF canPromotePawn(piece, toRow)
      THEN [gs EXCEPT !.board = newBoard,
                      !.promotionPending = [row |-> toRow, col |-> toCol, color |-> piece.color,
                                            fromRow |-> fromRow, fromCol |-> fromCol]]
      ELSE [gs EXCEPT !.board = newBoard,
                      !.currentPlayer = nextPlayer,
                      !.selectedPiece = NoSelection,
                      !.lastMove = newMove,
                      !.castlingRights = updateCastlingRights(gs.castlingRights, piece, fromRow, fromCol)]

\* the timer handleMove starts with setTimeout(..., 0): updateGameStatus(newBoard, currentPlayer)
moveTimer(gs, fromRow, fromCol, toRow, toCol) ==
  IF moveAccepted(gs, fromRow, fromCol, toRow, toCol) /\ ~movePromotes(gs, fromRow, fromCol, toRow, toCol)
  THEN [board |-> movedBoard(gs, fromRow, fromCol, toRow, toCol), currentPlayer |-> gs.currentPlayer]
  ELSE NoTimer

\* handleSquareClick reaches its call of handleMove
clickMoves(gs, settings, row, col) ==
  /\ gs.gameStatus \in {"active", "check"}
  /\ IsNull(gs.promotionPending)
  /\ ~(settings.opponent = "ai" /\ gs.currentPlayer # settings.playerColor)
  /\ ~IsNull(gs.selectedPiece)
  /\ ~(gs.selectedPiece.row = row /\ gs.selectedPiece.col = col)
  /\ ~(Truthy(gs.board[row][col]) /\ gs.board[row][col].color = gs.currentPlayer)

\* the state handleSquareClick installs
handleSquareClick(gs, settings, row, col) ==
  IF gs.gameStatus # "active" /\ gs.gameStatus # "check" THEN gs
  ELSE IF ~IsNull(gs.promotionPending) THEN gs
  ELSE IF settings.opponent = "ai" /\ gs.currentPlayer # settings.playerColor THEN gs
  ELSE IF IsNull(gs.selectedPiece) /\ Truthy(gs.board[row][col]) /\ gs.board[row][col].color = gs.currentPlayer
  THEN [gs EXCEPT !.selectedPiece = [row |-> row, col |-> col]]
  ELSE IF ~IsNull(gs.selectedPiece)
  THEN IF gs.selectedPiece.row = row /\ gs.selectedPiece.col = col
       THEN [gs EXCEPT !.selectedPiece = NoSelection]
       ELSE IF Truthy(gs.board[row][col]) /\ gs.board[row][col].color = gs.currentPlayer
       THEN [gs EXCEPT !.selectedPiece = [row |-> row, col |-> col]]
       ELSE handleMove(gs, gs.selectedPiece.row, gs.selectedPiece.col, row, col)
  ELSE gs

\* the state handlePromotion installs: the chosen piece replaces the pawn, then
\* updateGameStatus(newBoard, gameState.currentPlayer) runs on it
handlePromotion(gs, pieceType) ==
  IF IsNull(gs.promotionPending) THEN gs
  ELSE LET pp == gs.promotionPending
           newBoard == [gs.board EXCEPT ![pp.row][pp.col] = P(pieceType, pp.color)]
       IN  updateGameStatus([gs EXCEPT !.board = newBoard, !.promotionPending = NoPromotion],
                            newBoard, gs.currentPlayer)

PromotionChoices == {"queen", "rook", "bishop", "knight"}

\* cancelPromotion destructures fromRow, fromCol, toRow and toCol from
\* promotionPending; a property the object lacks reads undefined, and
\* newBoard[undefined] is undefined, so the assignment
\* newBoard[toRow][toCol] = null throws a TypeError before setGameState
cancelPromotionThrows(gs) ==
  "toRow" \notin DOMAIN gs.promotionPending

\* the state cancelPromotion installs when it does not throw
cancelPromotion(gs) ==
  LET pp == gs.promotionPending
      newBoard == [[gs.board EXCEPT ![pp.fromRow][pp.fromCol] = P("pawn", pp.color)]
                     EXCEPT ![pp.toRow][pp.toCol] = Null]
  IN  [gs EXCEPT !.board = newBoard, !.promotionPending = NoPromotion]

\* String.prototype.toLowerCase on the piece names a voice command carries
toLowerCase(str) ==
  CASE str = "Pawn" -> "pawn"
    [] str = "Rook" -> "rook"
    [] str = "Knight" -> "knight"
    [] str = "Bishop" -> "bishop"
    [] str = "Queen" -> "queen"
    [] str = "King" -> "king"
    [] OTHER -> str

\* the move handleVoiceCommand passes to handleMove for a move command, NoMove when
\* it calls nothing.  A square of a command is <<character code of the file letter,
\* the rank digit as parseInt reads it>>.
voiceMove(gs, command) ==
  IF "from" \in DOMAIN command
  THEN LET fromCol == command.from[1] - 97
           fromRow == 8 - command.from[2]
           toCol == command.to[1] - 97
           toRow == 8 - command.to[2]
       IN  IF /\ fromCol >= 0 /\ fromCol < 8 /\ fromRow >= 0 /\ fromRow < 8
              /\ toCol >= 0 /\ toCol < 8 /\ toRow >= 0 /\ toRow < 8
              /\ Truthy(gs.board[fromRow][fromCol])
              /\ gs.board[fromRow][fromCol].color = gs.currentPlayer
           THEN [fromRow |-> fromRow, fromCol |-> fromCol, toRow |-> toRow, toCol |-> toCol]
           ELSE NoMove
  ELSE LET pieceType == toLowerCase(command.piece)
           toCol == command.to[1] - 97
           toRow == 8 - command.to[2]
           found == { k \in 0..63 :
                        LET piece == gs.board[k \div 8][k % 8]
                        IN  /\ Truthy(piece)
                            /\ piece.color = gs.currentPlayer
                            /\ piece.type = pieceType
                            /\ isValidMove(gs.board, k \div 8, k % 8, toRow, toCol)
                            /\ ~wouldBeInCheck(gs.board, k \div 8, k % 8, toRow, toCol, gs.currentPlayer) }
       IN  IF found = {} THEN NoMove
           ELSE LET first == CHOOSE k \in found : \A other \in found : k <= other
                IN  [fromRow |-> first \div 8, fromCol |-> first % 8, toRow |-> toRow, toCol |-> toCol]

\* the state handleVoiceCommand installs for a move or a reset command
handleVoiceCommand(gs, command) ==
  IF command.type = "move"
  THEN LET move == voiceMove(gs, command)
       IN  IF IsNull(move) THEN gs
           ELSE handleMove(gs, move.fromRow, move.fromCol, move.toRow, move.toCol)
  ELSE IF command.type = "reset" THEN InitialGameState
  ELSE gs

\* the effect for AI moves schedules the computer's move
aiMoveScheduled(gs, settings) ==
  /\ settings.opponent = "ai"
  /\ gs.gameStatus = "active"
  /\ gs.currentPlayer # settings.playerColor
  /\ IsNull(gs.promotionPending)

\* the move the scheduled callback asks getBestMove for
aiMove(gs, settings) ==
  getBestMove(gs.board, gs.currentPlayer, gs.castlingRights, gs.lastMove,
              settings.aiDifficulty, settings.aiPersonality)

(***************************************************************************)
(* Games: the positions play starts from.  Each is reached from the        *)
(* initial position by the handlers themselves, replaying a line of moves. *)
(***************************************************************************)
\* one accepted move, entered by a click on its source and a click on its
\* destination, and the status update its timer runs
playMove(gs, m) ==
  LET selected == [gs EXCEPT !.selectedPiece = [row |-> m[1], col |-> m[2]]]
      moved == handleMove(selected, m[1], m[2], m[3], m[4])
      timer == moveTimer(gs, m[1], m[2], m[3], m[4])
  IN  IF IsNull(timer) THEN moved
      ELSE updateGameStatus(moved, timer.board, timer.currentPlayer)

RECURSIVE playLine(_, _, _)
playLine(gs, line, i) ==
  IF i > Len(line) THEN gs
  ELSE LET next == playMove(gs, line[i])
       IN  IF next.currentPlayer \in Colors THEN playLine(next, line, i + 1) ELSE gs

\* e2e4 a7a6 e4e5
EnPassantLine ==
  << <<6, 4, 4, 4>>, <<1, 0, 2, 0>>, <<4, 4, 3, 4>> >>

\* e2e4 e7e5 g1f3 b8c6 f1c4 f8c5
CastleLine ==
  << <<6, 4, 4, 4>>, <<1, 4, 3, 4>>, <<7, 6, 5, 5>>, <<0, 1, 2, 2>>, <<7, 5, 4, 2>>, <<0, 5, 3, 2>> >>

\* f2f3 e7e5 g2g4
FoolsMateLine ==
  << <<6, 5, 5, 5>>, <<1, 4, 3, 4>>, <<6, 6, 4, 6>> >>

\* e2e3 a7a5 d1h5 a8a6 h5a5 h7h5 h2h4 a6h6 a5c7 f7f6 c7d7 e8f7 d7b7 d8d3 b7b8 d3h7 b8c8 f7g6
StalemateLine ==
  << <<6, 4, 5, 4>>, <<1, 0, 3, 0>>, <<7, 3, 3, 7>>, <<0, 0, 2, 0>>, <<3, 7, 3, 0>>, <<1, 7, 3, 7>>,
     <<6, 7, 4, 7>>, <<2, 0, 2, 7>>, <<3, 0, 1, 2>>, <<1, 5, 2, 5>>, <<1, 2, 1, 3>>, <<0, 4, 1, 5>>,
     <<1, 3, 1, 1>>, <<0, 3, 5, 3>>, <<1, 1, 0, 1>>, <<5, 3, 1, 7>>, <<0, 1, 0, 2>>, <<1, 5, 2, 6>> >>

\* a2a4 b7b5 a4b5 a7a6 b5a6 c8b7 a6b7 b8c6
PromotionLine ==
  << <<6, 0, 4, 0>>, <<1, 1, 3, 1>>, <<4, 0, 3, 1>>, <<1, 0, 2, 0>>, <<3, 1, 2, 0>>, <<0, 2, 1, 1>>,
     <<2, 0, 1, 1>>, <<0, 1, 2, 2>> >>

\* e2e4 f7f5 d1h5: black is in check
CheckLine ==
  << <<6, 4, 4, 4>>, <<1, 5, 3, 5>>, <<7, 3, 3, 7>> >>

\* f2f3 e7e5 g2g4 d8h4: white is checkmated
MatedLine == FoolsMateLine \o << <<0, 3, 4, 7>> >>

\* the ten-move stalemate, ending with c8e6
StalematedLine == StalemateLine \o << <<0, 2, 2, 4>> >>

\* h2h4 a7a6 h4h5 a6a5 h5h6 a5a4 h6g7 b7b6 g7f8: the pawn has taken the bishop on f8
\* and waits for the promotion choice; a queen or a rook there checks the king on e8,
\* which can take it
PromotionCheckLine ==
  << <<6, 7, 4, 7>>, <<1, 0, 2, 0>>, <<4, 7, 3, 7>>, <<2, 0, 3, 0>>, <<3, 7, 2, 7>>, <<3, 0, 4, 0>>,
     <<2, 7, 1, 6>>, <<1, 1, 2, 1>>, <<1, 6, 0, 5>> >>

\* h2h4 a7a6 h4h5 a6a5 h5h6 a5a4 h6g7 b7b6 d2d3 b6b5 c1h6 b5b4 g7f8: as before, with
\* the bishop on h6 guarding f8, so that a queen or a rook there mates
PromotionMateLine ==
  << <<6, 7, 4, 7>>, <<1, 0, 2, 0>>, <<4, 7, 3, 7>>, <<2, 0, 3, 0>>, <<3, 7, 2, 7>>, <<3, 0, 4, 0>>,
     <<2, 7, 1, 6>>, <<1, 1, 2, 1>>, <<6, 3, 5, 3>>, <<2, 1, 3, 1>>, <<7, 2, 2, 7>>, <<3, 1, 4, 1>>,
     <<1, 6, 0, 5>> >>

Lines ==
  {<<>>, EnPassantLine, CastleLine, FoolsMateLine, StalemateLine, PromotionLine,
   CheckLine, MatedLine, StalematedLine, PromotionCheckLine, PromotionMateLine}

StartStates == {playLine(InitialGameState, line, 1) : line \in Lines}

\* no function call is recorded
NoCall == [fn |-> "none"]

\* accepted moves after which no further move is explored
MaxPly == 1

\* the settings the settings dialog hands to handleStartGame: the opponent, the
\* player's colour against the computer, voice commands on or off
SettingsArgs ==
  {InitialGameSettings, [InitialGameSettings EXCEPT !.voiceCommandsEnabled = TRUE]}
  \cup {[playerColor |-> c, opponent |-> "ai", aiDifficulty |-> "easy", aiPersonality |-> "standard",
          voiceCommandsEnabled |-> v] : c \in Colors, v \in BOOLEAN}

\* the squares the two-square voice commands name: files e, f and i, ranks 2, 4, 8 and 9
VoiceSquares == {101, 102, 105} \X {2, 4, 8, 9}

\* the squares of the board among them
BoardSquares == (97..104) \X (1..8)

PieceNames == {"pawn", "Knight", "Queen"}

\* move commands with two squares, move commands with a piece and a square, reset
VoiceCommands ==
  {[type |-> "move", from |-> f, to |-> t] : f \in VoiceSquares, t \in VoiceSquares}
  \cup {[type |-> "move", piece |-> n, to |-> t] : n \in PieceNames, t \in BoardSquares}
  \cup {[type |-> "reset"]}

(***************************************************************************)
(* The GameTimer component: two clocks in seconds, the isRunning flag, the *)
(* interval its effect sets, and the dependencies the effect last ran with *)
(***************************************************************************)
\* the seconds each clock starts with (gameSettings.timeLimit, scaled down)
initialTime == 3

\* the component after its useState initialisers, before its effect has run;
\* second is the parity of the seconds elapsed and pausedByUser records that
\* the last press of Pause/Resume was a pause
InitialGameTimer ==
  [whiteTime |-> initialTime, blackTime |-> initialTime, isRunning |-> TRUE,
   interval |-> FALSE, deps |-> <<>>, pausedByUser |-> FALSE, second |-> 0]

handleTimeUp(gs, color) ==
  [gs EXCEPT !.gameStatus = "timeout"]

(***************************************************************************)
(* The game: clicks, the status timer, the promotion dialog, the reset     *)
(* button.  The zero-delay timer of handleMove runs before the next input  *)
(* event is handled.                                                       *)
(***************************************************************************)
Init ==
  /\ gameState \in StartStates
  /\ gameSettings = InitialGameSettings
  /\ statusTimer = NoTimer
  /\ lastOp = "init"
  /\ ply = 0
  /\ call = NoCall
  /\ gameTimer = InitialGameTimer

SquareClick(row, col) ==
  /\ IsNull(statusTimer)
  /\ ply < MaxPly
  /\ LET sel == gameState.selectedPiece
         moving == clickMoves(gameState, gameSettings, row, col)
         timer == IF moving THEN moveTimer(gameState, sel.row, sel.col, row, col) ELSE NoTimer
         accepted == moving /\ moveAccepted(gameState, sel.row, sel.col, row, col)
     IN  /\ gameState' = handleSquareClick(gameState, gameSettings, row, col)
         /\ statusTimer' = timer
         /\ ply' = IF accepted THEN ply + 1 ELSE ply
  /\ lastOp' = "handleSquareClick"
  /\ UNCHANGED <<gameSettings, call, gameTimer>>

StatusTimeout ==
  /\ ~IsNull(statusTimer)
  /\ gameState' = updateGameStatus(gameState, statusTimer.board, statusTimer.currentPlayer)
  /\ statusTimer' = NoTimer
  /\ lastOp' = "updateGameStatus"
  /\ UNCHANGED <<gameSettings, ply, call, gameTimer>>

PromotionSelect(pieceType) ==
  /\ IsNull(statusTimer)
  /\ ~IsNull(gameState.promotionPending)
  /\ gameState' = handlePromotion(gameState, pieceType)
  /\ lastOp' = "handlePromotion"
  /\ UNCHANGED <<gameSettings, statusTimer, ply, call, gameTimer>>

ResetBoard ==
  /\ IsNull(statusTimer)
  /\ gameState' = InitialGameState
  /\ lastOp' = "resetBoard"
  /\ UNCHANGED <<gameSettings, statusTimer, ply, call, gameTimer>>

\* the VoiceCommands component, rendered while voice commands are enabled, reports a command
VoiceCommand(command) ==
  /\ gameSettings.voiceCommandsEnabled
  /\ IsNull(statusTimer)
  /\ ply < MaxPly
  /\ \E move \in {IF command.type = "move" THEN voiceMove(gameState, command) ELSE NoMove} :
     LET accepted == ~IsNull(move) /\ moveAccepted(gameState, move.fromRow, move.fromCol, move.toRow, move.toCol)
     IN  /\ gameState' = handleVoiceCommand(gameState, command)
         /\ statusTimer' = IF IsNull(move) THEN NoTimer
                           ELSE moveTimer(gameState, move.fromRow, move.fromCol, move.toRow, move.toCol)
         /\ ply' = IF accepted THEN ply + 1 ELSE ply
  /\ lastOp' = IF command.type = "reset" THEN "resetBoard" ELSE "handleVoiceCommand"
  /\ UNCHANGED <<gameSettings, call, gameTimer>>

\* the 500 ms timer of the effect for AI moves fires: getBestMove, then handleMove
AiMoveTimeout ==
  /\ IsNull(statusTimer)
  /\ ply < MaxPly
  /\ aiMoveScheduled(gameState, gameSettings)
  /\ \E move \in {aiMove(gameState, gameSettings)} :
     LET accepted == ~IsNull(move) /\ moveAccepted(gameState, move.fromRow, move.fromCol, move.toRow, move.toCol)
     IN  /\ gameState' = IF IsNull(move) THEN gameState
                         ELSE handleMove(gameState, move.fromRow, move.fromCol, move.toRow, move.toCol)
         /\ statusTimer' = IF IsNull(move) THEN NoTimer
                           ELSE moveTimer(gameState, move.fromRow, move.fromCol, move.toRow, move.toCol)
         /\ ply' = IF accepted THEN ply + 1 ELSE ply
  /\ lastOp' = "aiMove"
  /\ UNCHANGED <<gameSettings, call, gameTimer>>

Next ==
  \/ \E row \in Idx, col \in Idx : SquareClick(row, col)
  \/ StatusTimeout
  \/ \E pieceType \in PromotionChoices : PromotionSelect(pieceType)
  \/ ResetBoard

Spec == Init /\ [][Next]_vars

\* the Cancel button of the promotion dialog, shown while a promotion is
\* pending; a handler that throws leaves the state as it was
CancelPromotion ==
  /\ IsNull(statusTimer)
  /\ ~IsNull(gameState.promotionPending)
  /\ gameState' = IF cancelPromotionThrows(gameState) THEN gameState ELSE cancelPromotion(gameState)
  /\ lastOp' = "cancelPromotion"
  /\ UNCHANGED <<gameSettings, statusTimer, ply, call, gameTimer>>

DialogNext ==
  \/ \E row \in Idx, col \in Idx : SquareClick(row, col)
  \/ StatusTimeout
  \/ \E pieceType \in PromotionChoices : PromotionSelect(pieceType)
  \/ ResetBoard
  \/ CancelPromotion

SpecDialog == Init /\ [][DialogNext]_vars

\* the dependencies of the timer effect as the last render saw them
timerDeps == <<gameState.currentPlayer, gameState.gameStatus, gameTimer.isRunning>>

\* no effect of the GameTimer is left to run
effectSettled == gameTimer.deps = timerDeps

\* the timer effect runs after a render in which a dependency changed: the
\* clean-up clears the interval, then the flag is lowered when gameStatus is
\* not 'active', and an interval is set when it is and isRunning holds
TimerEffect ==
  /\ ~effectSettled
  /\ gameTimer' = IF gameState.gameStatus # "active"
                   THEN [gameTimer EXCEPT !.isRunning = FALSE, !.interval = FALSE, !.deps = timerDeps]
                   ELSE [gameTimer EXCEPT !.interval = gameTimer.isRunning, !.deps = timerDeps]
  /\ lastOp' = "timerEffect"
  /\ UNCHANGED <<gameState, gameSettings, statusTimer, ply, call>>

\* one second passes; the interval callback runs if an interval is set
Tick ==
  /\ effectSettled
  /\ IsNull(statusTimer)
  /\ LET white == gameState.currentPlayer = "white"
         prevTime == IF white THEN gameTimer.whiteTime ELSE gameTimer.blackTime
         nextTime == IF prevTime <= 1 THEN 0 ELSE prevTime - 1
         ticked == [gameTimer EXCEPT !.second = 1 - gameTimer.second]
     IN  IF ~gameTimer.interval
         THEN /\ gameTimer' = ticked
              /\ UNCHANGED gameState
         ELSE /\ gameTimer' = IF white
                               THEN [ticked EXCEPT !.whiteTime = nextTime,
                                                   !.interval = IF prevTime <= 1 THEN FALSE ELSE @]
                               ELSE [ticked EXCEPT !.blackTime = nextTime,
                                                   !.interval = IF prevTime <= 1 THEN FALSE ELSE @]
              /\ gameState' = IF prevTime <= 1 THEN handleTimeUp(gameState, gameState.currentPlayer)
                              ELSE gameState
  /\ lastOp' = "tick"
  /\ UNCHANGED <<gameSettings, statusTimer, ply, call>>

\* the Pause/Resume button, enabled while gameStatus is 'active'
ToggleTimer ==
  /\ effectSettled
  /\ gameState.gameStatus = "active"
  /\ gameTimer' = [gameTimer EXCEPT !.isRunning = ~gameTimer.isRunning,
                                    !.pausedByUser = gameTimer.isRunning]
  /\ lastOp' = "toggleTimer"
  /\ UNCHANGED <<gameState, gameSettings, statusTimer, ply, call>>

\* the Reset button of the timer, disabled while the game is active and the
\* timer runs
ResetTimers ==
  /\ effectSettled
  /\ ~(gameState.gameStatus = "active" /\ gameTimer.isRunning)
  /\ gameTimer' = [gameTimer EXCEPT !.whiteTime = initialTime, !.blackTime = initialTime,
                                    !.isRunning = TRUE, !.pausedByUser = FALSE]
  /\ lastOp' = "resetTimers"
  /\ UNCHANGED <<gameState, gameSettings, statusTimer, ply, call>>

\* the game with its timer: effects run before the next event is handled
TimerNext ==
  \/ /\ effectSettled
     /\ \E row \in Idx, col \in Idx : SquareClick(row, col)
  \/ StatusTimeout
  \/ /\ effectSettled
     /\ \E pieceType \in PromotionChoices : PromotionSelect(pieceType)
  \/ /\ effectSettled
     /\ ResetBoard
  \/ TimerEffect
  \/ Tick
  \/ ToggleTimer
  \/ ResetTimers

SpecTimer == Init /\ [][TimerNext]_vars

(***************************************************************************)
(* The game with voice commands and the computer opponent: the settings    *)
(* dialog has been submitted during the game.                              *)
(***************************************************************************)
\* the games in which the computer is the opponent
ComputerLines == {<<>>, FoolsMateLine, CheckLine, MatedLine, PromotionMateLine}

PlayInit ==
  /\ gameState \in StartStates
  /\ gameSettings \in SettingsArgs
  /\ gameSettings.opponent = "ai" => gameState \in {playLine(InitialGameState, line, 1) : line \in ComputerLines}
  /\ statusTimer = NoTimer
  /\ lastOp = "init"
  /\ ply = 0
  /\ call = NoCall
  /\ gameTimer = InitialGameTimer

PlayNext ==
  \/ \E row \in Idx, col \in Idx : SquareClick(row, col)
  \/ StatusTimeout
  \/ \E pieceType \in PromotionChoices : PromotionSelect(pieceType)
  \/ ResetBoard
  \/ \E command \in VoiceCommands : VoiceCommand(command)
  \/ AiMoveTimeout

SpecPlay == PlayInit /\ [][PlayNext]_vars

\* Games against the computer played by clicks, in which the two timers run
\* when they are due: the 500 ms timer of the computer's move and the 0 ms timer
\* of the status update
ComputerInit ==
  /\ PlayInit
  /\ gameSettings.opponent = "ai"
  /\ ~gameSettings.voiceCommandsEnabled

ComputerNext ==
  \/ \E row \in Idx, col \in Idx : SquareClick(row, col)
  \/ StatusTimeout
  \/ \E pieceType \in PromotionChoices : PromotionSelect(pieceType)
  \/ ResetBoard
  \/ AiMoveTimeout

\* the computer's move is due: AiMoveTimeout is enabled
aiMoveDue ==
  /\ IsNull(statusTimer)
  /\ ply < MaxPly
  /\ aiMoveScheduled(gameState, gameSettings)

\* weak fairness of the two timer callbacks; that of AiMoveTimeout is written
\* out with its enabling condition: if the computer's move stays due, it is made
SpecComputer ==
  /\ ComputerInit
  /\ [][ComputerNext]_vars
  /\ WF_vars(StatusTimeout)
  /\ ([]<>(~aiMoveDue) \/ []<>(lastOp = "aiMove"))

(***************************************************************************)
(* Properties of the game, checked under Spec                              *)
(***************************************************************************)
\* the move just made is a black pawn's double step from row 1 to row 3 in column c
blackDoubleStep(c) ==
  /\ ~IsNull(gameState.lastMove)
  /\ gameState.lastMove.piece = [str |-> "pawn"]
  /\ gameState.lastMove.color = "black"
  /\ gameState.lastMove.from = [row |-> 1, col |-> c]
  /\ gameState.lastMove.to = [row |-> 3, col |-> c]
  /\ gameState.board[3][c] = P("pawn", "black")
  /\ gameState.currentPlayer = "white"

\* C5: right after a black pawn's double step to (3, c), with a white pawn on
\* row 3 in a neighbouring column, isValidMove accepts that pawn's diagonal
\* move to (2, c), and handleMove, unless the move leaves the white king in
\* check, applies it and removes the black pawn from (3, c)
C5_EnPassantAcceptedAndApplied ==
  \A c \in Idx, side \in {-1, 1} :
    (/\ c + side \in Idx
     /\ blackDoubleStep(c)
     /\ gameState.board[3][c + side] = P("pawn", "white"))
      => /\ isValidMove(gameState.board, 3, c + side, 2, c)
         /\ ~wouldBeInCheck(gameState.board, 3, c + side, 2, c, "white")
              => LET after == handleMove(gameState, 3, c + side, 2, c).board
                 IN  /\ after[2][c] = P("pawn", "white")
                     /\ after[3][c] = Null

\* the en-passant edit of C5 alone: getEnPassantCapture, given the lastMove
\* handleMove recorded, names the square of the pawn that double-stepped
C5_CaptureEditDerived ==
  \A c \in Idx, side \in {-1, 1} :
    (/\ c + side \in Idx
     /\ blackDoubleStep(c)
     /\ gameState.board[3][c + side] = P("pawn", "white"))
      => getEnPassantCapture(gameState.board, 3, c + side, 2, c, gameState.lastMove)
           = [captureRow |-> 3, captureCol |-> c]

\* the side to move may castle on the wing towards column rookCol: it holds
\* the right, king and rook stand on their squares, the squares between are
\* empty, and neither the king's square, the square it crosses nor the one it
\* lands on is attacked
castlingReady(gs, rookCol) ==
  LET color == gs.currentPlayer
      row == IF color = "white" THEN 7 ELSE 0
      flag == IF rookCol = 7
              THEN (IF color = "white" THEN gs.castlingRights.whiteKingside ELSE gs.castlingRights.blackKingside)
              ELSE (IF color = "white" THEN gs.castlingRights.whiteQueenside ELSE gs.castlingRights.blackQueenside)
      between == IF rookCol = 7 THEN {5, 6} ELSE {1, 2, 3}
      crossed == IF rookCol = 7 THEN {4, 5, 6} ELSE {4, 3, 2}
  IN  /\ IsNull(gs.promotionPending)
      /\ flag
      /\ gs.board[row][4] = P("king", color)
      /\ gs.board[row][rookCol] = P("rook", color)
      /\ \A c \in between : gs.board[row][c] = Null
      /\ \A c \in crossed : ~isSquareAttacked(gs.board, row, c, color)

\* C6: when the side to move may castle on a wing, handleMove accepts the
\* king's two-square move; afterwards the king stands two squares from its
\* origin, the rook on the square the king crossed, and the original squares
\* of both are empty
C6_CastlingAcceptedAndApplied ==
  \A rookCol \in {0, 7} :
    castlingReady(gameState, rookCol) =>
      LET color == gameState.currentPlayer
          row == IF color = "white" THEN 7 ELSE 0
          toCol == IF rookCol = 7 THEN 6 ELSE 2
          crossedCol2 == IF rookCol = 7 THEN 5 ELSE 3
          after == handleMove(gameState, row, 4, row, toCol).board
      IN  /\ moveAccepted(gameState, row, 4, row, toCol)
          /\ after[row][toCol] = P("king", color)
          /\ after[row][crossedCol2] = P("rook", color)
          /\ after[row][4] = Null
          /\ after[row][rookCol] = Null

RightsFlags == {"whiteKingside", "whiteQueenside", "blackKingside", "blackQueenside"}

\* updateCastlingRights, on the rights of this state and any piece leaving any
\* square, returns no flag true that its input holds false
rightsOnlyLost ==
  \A f \in RightsFlags :
    ~gameState.castlingRights[f] =>
       \A t \in PieceTypes, c \in Colors, s \in Squares :
          ~updateCastlingRights(gameState.castlingRights, P(t, c), s[1], s[2])[f]

\* C8: over every step of a game but resetBoard, a castling-rights flag that
\* is false stays false, and updateCastlingRights never returns true for a
\* flag false in its input
C8_CastlingRightsNeverRegained ==
  /\ [][lastOp' # "resetBoard" =>
          \A f \in RightsFlags : ~gameState.castlingRights[f] => ~gameState'.castlingRights[f]]_vars
  /\ []rightsOnlyLost

\* C8 witness: a white move was accepted in a game where black had lost its
\* rights, and they are still lost
C8_Witness ==
  /\ ply >= 1
  /\ ~IsNull(gameState.lastMove)
  /\ gameState.lastMove.color = "white"
  /\ gameState.currentPlayer = "black"
  /\ ~gameState.castlingRights.blackKingside
  /\ ~gameState.castlingRights.blackQueenside

(***************************************************************************)
(* The rules as functions: a position is drawn, and one exported function  *)
(* is called on it with arguments drawn from bounded sets.  The record     *)
(* call holds the arguments and what the function returned.                *)
\* C11: once the status timer of an accepted move has run, gameStatus is "check"
\* exactly when the player now to move, the mover's opponent, is in check and not
\* checkmated; so a move that escapes a check without giving one leaves "active"
C11_StatusFollowsCheck ==
  lastOp = "updateGameStatus" =>
     (gameState.gameStatus = "check" <=>
        /\ isKingInCheck(gameState.board, gameState.currentPlayer)
        /\ ~isCheckmate(gameState.board, gameState.currentPlayer, gameState.castlingRights, gameState.lastMove))

\* C12: from a state whose gameStatus is "checkmate" or "stalemate", every step
\* other than resetBoard (a click, a voice command, a promotion choice, the
\* computer's move, the status timer) leaves the board, currentPlayer and
\* gameStatus as they are
C12_TerminalStatusFreezesGame ==
  [][(gameState.gameStatus \in {"checkmate", "stalemate"} /\ lastOp' # "resetBoard") =>
        /\ gameState'.board = gameState.board
        /\ gameState'.currentPlayer = gameState.currentPlayer
        /\ gameState'.gameStatus = gameState.gameStatus]_vars

\* the squares holding the king of a colour
kingSquares(board, color) == {sq \in Squares : board[sq[1]][sq[2]] = P("king", color)}

\* C13: in every state of a game the board holds exactly one white king and
\* exactly one black king
C13_OneKingEach ==
  \A color \in Colors : Cardinality(kingSquares(gameState.board, color)) = 1

(***************************************************************************)
EmptyBoard == [r \in Idx |-> [c \in Idx |-> Null]]

RECURSIVE place(_, _, _)
place(board, pieces, i) ==
  IF i > Len(pieces) THEN board
  ELSE place([board EXCEPT ![pieces[i][1]][pieces[i][2]] = P(pieces[i][3], pieces[i][4])], pieces, i + 1)

\* a position late in a game, with the side to move
endgame(pieces, toMove) ==
  [InitialGameState EXCEPT !.board = place(EmptyBoard, pieces, 1),
                           !.currentPlayer = toMove,
                           !.castlingRights = [whiteKingside |-> FALSE, whiteQueenside |-> FALSE,
                                               blackKingside |-> FALSE, blackQueenside |-> FALSE]]

\* king and queen against king, mate in one (Qa1-a8)
QueenMateInOne == endgame(<< <<2, 6, "king", "white">>, <<7, 0, "queen", "white">>, <<0, 7, "king", "black">> >>, "white")

\* king and pawn against king
PawnEnding == endgame(<< <<2, 4, "king", "white">>, <<3, 4, "pawn", "white">>, <<0, 4, "king", "black">> >>, "white")

\* black to move has no move and is not in check
QueenStalemate == endgame(<< <<7, 0, "king", "white">>, <<1, 5, "queen", "white">>, <<0, 7, "king", "black">> >>, "black")

\* black to move is checkmated
QueenMate == endgame(<< <<2, 6, "king", "white">>, <<1, 6, "queen", "white">>, <<0, 7, "king", "black">> >>, "black")

\* a pawn one step from promotion, a knight against it
KnightEnding == endgame(<< <<7, 7, "king", "white">>, <<1, 0, "pawn", "white">>, <<0, 2, "knight", "black">>, <<0, 7, "king", "black">> >>, "white")

\* pawns facing each other, a capture available to both
PawnTension == endgame(<< <<7, 0, "king", "white">>, <<4, 3, "pawn", "white">>, <<3, 4, "pawn", "black">>, <<3, 2, "pawn", "black">>, <<0, 0, "king", "black">> >>, "white")

\* a bishop against a pawn; the black king in the corner has two moves
BishopEnding == endgame(<< <<5, 6, "king", "white">>, <<4, 4, "bishop", "white">>, <<6, 7, "pawn", "black">>, <<7, 7, "king", "black">> >>, "black")

\* a rook check the king must answer
RookCheck == endgame(<< <<7, 6, "king", "white">>, <<6, 5, "pawn", "white">>, <<6, 6, "pawn", "white">>, <<0, 0, "rook", "black">>, <<1, 7, "king", "black">>, <<7, 2, "knight", "white">> >>, "black")

SearchStates == {QueenMateInOne, PawnEnding, QueenStalemate, QueenMate, KnightEnding, PawnTension, BishopEnding, RookCheck}

\* e2e4 b7b6 g2g3 c8a6 f1h3 e7e6 g1f3 g8f6: f1 is attacked by the bishop on a6
CastleThroughCheckLine ==
  << <<6, 4, 4, 4>>, <<1, 1, 2, 1>>, <<6, 6, 5, 6>>, <<0, 2, 2, 0>>, <<7, 5, 5, 7>>, <<1, 4, 2, 4>>,
     <<7, 6, 5, 5>>, <<0, 6, 2, 5>> >>

\* e2e4 e7e5 g1f3 b8c6 f1c4 f8c5 d2d3 c5f2: the white king is in check, f1 and g1 are empty
CastleOutOfCheckLine == CastleLine \o << <<6, 3, 5, 3>>, <<3, 2, 6, 5>> >>

\* d2d4 d7d5 c1f4 c8f5 b1c3 b8c6 d1d2 d8d7: both queen sides are clear
QueensideLine ==
  << <<6, 3, 4, 3>>, <<1, 3, 3, 3>>, <<7, 2, 4, 5>>, <<0, 2, 3, 5>>, <<7, 1, 5, 2>>, <<0, 1, 2, 2>>,
     <<7, 3, 6, 3>>, <<0, 3, 1, 3>> >>

\* e2e4 b8c6 g1f3 c6b4 f1c4 b4d3: the knight on d3 checks the white king; f1 and g1 are
\* empty and not attacked
KnightCheckLine ==
  << <<6, 4, 4, 4>>, <<0, 1, 2, 2>>, <<7, 6, 5, 5>>, <<2, 2, 4, 1>>, <<7, 5, 4, 2>>, <<4, 1, 5, 3>> >>

RuleLines == {CastleThroughCheckLine, CastleOutOfCheckLine, QueensideLine, KnightCheckLine}

RuleStates == StartStates \cup {playLine(InitialGameState, line, 1) : line \in RuleLines} \cup SearchStates

\* arguments outside the board: one row or column beyond each edge
Coord == -1..8

\* castling rights a caller may pass: null, or one of these objects
RightsArgs ==
  {NoRights, AllRights,
   [whiteKingside |-> FALSE, whiteQueenside |-> FALSE, blackKingside |-> FALSE, blackQueenside |-> FALSE],
   [whiteKingside |-> TRUE, whiteQueenside |-> FALSE, blackKingside |-> TRUE, blackQueenside |-> FALSE],
   [whiteKingside |-> FALSE, whiteQueenside |-> TRUE, blackKingside |-> FALSE, blackQueenside |-> TRUE]}

RulesInit ==
  /\ gameState \in RuleStates
  /\ gameSettings = InitialGameSettings
  /\ statusTimer = NoTimer
  /\ lastOp = "init"
  /\ ply = 0
  /\ call = NoCall
  /\ gameTimer = InitialGameTimer

\* a function is called once on the position drawn
Called(c) ==
  /\ call' = c
  /\ UNCHANGED <<gameState, gameSettings, statusTimer, lastOp, ply, gameTimer>>

CallWouldBeInCheck(fromRow, fromCol, toRow, toCol, kingColor) ==
  /\ Truthy(gameState.board[fromRow][fromCol])
  /\ Called([fn |-> "wouldBeInCheck", fromRow |-> fromRow, fromCol |-> fromCol, toRow |-> toRow, toCol |-> toCol,
             kingColor |-> kingColor,
             result |-> wouldBeInCheck(gameState.board, fromRow, fromCol, toRow, toCol, kingColor)])

CallIsCheckmate(kingColor) ==
  Called([fn |-> "isCheckmate", kingColor |-> kingColor,
          result |-> isCheckmate(gameState.board, kingColor, gameState.castlingRights, gameState.lastMove)])

CallIsStalemate(kingColor) ==
  Called([fn |-> "isStalemate", kingColor |-> kingColor,
          result |-> isStalemate(gameState.board, kingColor, gameState.castlingRights, gameState.lastMove)])

CallIsValidKingMove(fromRow, fromCol, toRow, toCol, castlingRights, inCheck) ==
  /\ gameState.board[fromRow][fromCol].type = "king"
  /\ Called([fn |-> "isValidKingMove", fromRow |-> fromRow, fromCol |-> fromCol, toRow |-> toRow, toCol |-> toCol,
             castlingRights |-> castlingRights, inCheck |-> inCheck,
             result |-> isValidKingMove(gameState.board, fromRow, fromCol, toRow, toCol, castlingRights, inCheck)])

CallIsValidMove(fromRow, fromCol, toRow, toCol) ==
  LET threw == isValidMoveThrows(gameState.board, fromRow, fromCol, toRow, toCol)
  IN  Called([fn |-> "isValidMove", fromRow |-> fromRow, fromCol |-> fromCol, toRow |-> toRow, toCol |-> toCol,
              threw |-> threw,
              result |-> IF threw THEN FALSE ELSE isValidMove(gameState.board, fromRow, fromCol, toRow, toCol)])

\* isValidPawnMove called with five arguments (lastMove takes its default, null)
\* for a pawn on the source square
CallIsValidPawnMove(fromRow, fromCol, toRow, toCol) ==
  /\ gameState.board[fromRow][fromCol] # Null
  /\ gameState.board[fromRow][fromCol].type = "pawn"
  /\ Called([fn |-> "isValidPawnMove", fromRow |-> fromRow, fromCol |-> fromCol, toRow |-> toRow, toCol |-> toCol,
             result |-> isValidPawnMove(gameState.board, fromRow, fromCol, toRow, toCol, NoLastMove)])

\* two squares on one row, column or diagonal
Aligned(fromRow, fromCol, toRow, toCol) ==
  \/ fromRow = toRow
  \/ fromCol = toCol
  \/ Abs(toRow - fromRow) = Abs(toCol - fromCol)

\* isPathClear for two distinct aligned squares, with the squares its loop reads
CallIsPathClear(fromRow, fromCol, toRow, toCol) ==
  /\ <<fromRow, fromCol>> # <<toRow, toCol>>
  /\ Aligned(fromRow, fromCol, toRow, toCol)
  /\ LET rowStep == IF fromRow = toRow THEN 0 ELSE (IF toRow > fromRow THEN 1 ELSE -1)
         colStep == IF fromCol = toCol THEN 0 ELSE (IF toCol > fromCol THEN 1 ELSE -1)
     IN  Called([fn |-> "isPathClear", fromRow |-> fromRow, fromCol |-> fromCol, toRow |-> toRow, toCol |-> toCol,
                 result |-> isPathClear(gameState.board, fromRow, fromCol, toRow, toCol),
                 read |-> pathRead(gameState.board, fromRow + rowStep, fromCol + colStep,
                                   toRow, toCol, rowStep, colStep)])

CallIsSquareAttacked(row, col, defendingColor) ==
  Called([fn |-> "isSquareAttacked", row |-> row, col |-> col, defendingColor |-> defendingColor,
          result |-> isSquareAttacked(gameState.board, row, col, defendingColor)])

\* makeMove for a move object naming a source square that holds a piece
CallMakeMove(fromRow, fromCol, toRow, toCol) ==
  /\ Truthy(gameState.board[fromRow][fromCol])
  /\ LET move == [fromRow |-> fromRow, fromCol |-> fromCol, toRow |-> toRow, toCol |-> toCol,
                  piece |-> gameState.board[fromRow][fromCol], capturedPiece |-> gameState.board[toRow][toCol]]
     IN  Called([fn |-> "makeMove", fromRow |-> fromRow, fromCol |-> fromCol, toRow |-> toRow, toCol |-> toCol,
                 result |-> makeMove(gameState.board, move)])

\* the squares a piece leaves when updateCastlingRights is called: the corners,
\* the kings' squares and squares beside them
LeftSquares == {0, 3, 7} \X {0, 4, 7}

\* updateCastlingRights on rights held in a one-object store (an empty store for null)
CallUpdateCastlingRights(castlingRights, piece, fromRow, fromCol) ==
  LET store == IF IsNull(castlingRights) THEN <<>> ELSE <<castlingRights>>
      ref == IF IsNull(castlingRights) THEN 0 ELSE 1
  IN  Called([fn |-> "updateCastlingRights", castlingRights |-> castlingRights, piece |-> piece,
              fromRow |-> fromRow, fromCol |-> fromCol,
              result |-> updateCastlingRights(castlingRights, piece, fromRow, fromCol),
              after |-> updateCastlingRightsStore(store, ref, piece, fromRow, fromCol)])

RulesNext ==
  \/ /\ call = NoCall
     /\ \E fromRow \in Idx, fromCol \in Idx, toRow \in Idx, toCol \in Idx, kingColor \in Colors :
           CallWouldBeInCheck(fromRow, fromCol, toRow, toCol, kingColor)
  \/ /\ call = NoCall
     /\ \E kingColor \in Colors : CallIsCheckmate(kingColor)
  \/ /\ call = NoCall
     /\ \E kingColor \in Colors : CallIsStalemate(kingColor)
  \/ /\ call = NoCall
     /\ \E fromRow \in Idx, fromCol \in Idx, toRow \in Idx, toCol \in Idx, castlingRights \in RightsArgs, inCheck \in BOOLEAN :
           CallIsValidKingMove(fromRow, fromCol, toRow, toCol, castlingRights, inCheck)
  \/ /\ call = NoCall
     /\ \E fromRow \in Coord, fromCol \in Coord, toRow \in Coord, toCol \in Coord :
           CallIsValidMove(fromRow, fromCol, toRow, toCol)
  \/ /\ call = NoCall
     /\ \E castlingRights \in RightsArgs \cup {gameState.castlingRights}, t \in PieceTypes, c \in Colors, from \in LeftSquares :
           CallUpdateCastlingRights(castlingRights, P(t, c), from[1], from[2])
  \/ /\ call = NoCall
     /\ \E fromRow \in Idx, fromCol \in Idx, toRow \in Idx, toCol \in Idx :
           CallMakeMove(fromRow, fromCol, toRow, toCol)
  \/ /\ call = NoCall
     /\ \E row \in Idx, col \in Idx, defendingColor \in Colors :
           CallIsSquareAttacked(row, col, defendingColor)
  \/ /\ call = NoCall
     /\ \E fromRow \in Idx, fromCol \in Idx, toRow \in Idx, toCol \in Idx :
           CallIsValidPawnMove(fromRow, fromCol, toRow, toCol)
  \/ /\ call = NoCall
     /\ \E fromRow \in Idx, fromCol \in Idx, toRow \in Idx, toCol \in Idx :
           CallIsPathClear(fromRow, fromCol, toRow, toCol)

SpecRules == RulesInit /\ [][RulesNext]_vars

(***************************************************************************)
(* Properties of the rules as functions, checked under SpecRules           *)
(***************************************************************************)
\* the move object of the call recorded
callMove ==
  [fromRow |-> call.fromRow, fromCol |-> call.fromCol, toRow |-> call.toRow, toCol |-> call.toCol]

\* the origin/destination pairs of color that isValidMove accepts and that pass
\* the wouldBeInCheck filter
LegalPairs(board, color) ==
  {m \in Squares \X Squares :
     /\ Truthy(board[m[1][1]][m[1][2]])
     /\ board[m[1][1]][m[1][2]].color = color
     /\ isValidMove(board, m[1][1], m[1][2], m[2][1], m[2][2])
     /\ ~wouldBeInCheck(board, m[1][1], m[1][2], m[2][1], m[2][2], color)}

\* C1: for a source square holding a piece, any destination and a colour whose
\* king is on the board, wouldBeInCheck returns what isKingInCheck returns on
\* the board makeMove produces, for legal and illegal moves alike
C1_WouldBeInCheckIsCheckAfterMove ==
  (/\ call.fn = "wouldBeInCheck"
   /\ findKingSquare(gameState.board, call.kingColor) # <<-1, -1>>)
    => call.result = isKingInCheck(makeMove(gameState.board, callMove), call.kingColor)

\* C1 witness: a move isValidMove rejects was simulated and leaves the king in check
C1_Witness ==
  /\ call.fn = "wouldBeInCheck"
  /\ findKingSquare(gameState.board, call.kingColor) # <<-1, -1>>
  /\ ~isValidMove(gameState.board, call.fromRow, call.fromCol, call.toRow, call.toCol)
  /\ call.result = TRUE

\* C2: isCheckmate is true iff the king is in check and getAllValidMoves is
\* empty, and getAllValidMoves is empty iff no pair accepted by isValidMove
\* for a piece of the colour passes the wouldBeInCheck filter
C2_CheckmateIffCheckAndNoMove ==
  call.fn = "isCheckmate" =>
    LET moves == getAllValidMoves(gameState.board, call.kingColor, gameState.castlingRights, gameState.lastMove)
    IN  /\ call.result = (isKingInCheck(gameState.board, call.kingColor) /\ Len(moves) = 0)
        /\ (Len(moves) = 0) = (LegalPairs(gameState.board, call.kingColor) = {})

\* C2 witness: isCheckmate was called on a mated side and returned true
C2_Witness ==
  /\ call.fn = "isCheckmate"
  /\ call.result = TRUE
  /\ isKingInCheck(gameState.board, call.kingColor)

\* C3: isStalemate is true iff the king is not in check and the colour has no
\* legal move; isStalemate and isCheckmate are never both true; the set of
\* legal moves is empty iff exactly one of the two is true
C3_StalemateIffNoCheckAndNoMove ==
  call.fn = "isStalemate" =>
    LET legal == LegalPairs(gameState.board, call.kingColor)
        mate == isCheckmate(gameState.board, call.kingColor, gameState.castlingRights, gameState.lastMove)
    IN  /\ call.result = (~isKingInCheck(gameState.board, call.kingColor) /\ legal = {})
        /\ ~(call.result /\ mate)
        /\ (legal = {}) = (call.result # mate)

\* C3 witness: isStalemate was called on a side with no move and no check, and returned true
C3_Witness ==
  /\ call.fn = "isStalemate"
  /\ call.result = TRUE
  /\ ~isKingInCheck(gameState.board, call.kingColor)

\* the call moves a king two squares along its home row from its original square
castlingCall ==
  /\ call.fn = "isValidKingMove"
  /\ call.fromCol = 4
  /\ call.fromRow = (IF gameState.board[call.fromRow][call.fromCol].color = "white" THEN 7 ELSE 0)
  /\ call.toRow = call.fromRow
  /\ call.toCol \in {2, 6}

\* the castling-right flag of the call's colour and wing; no flag is set in a null argument
castlingFlag ==
  LET color == gameState.board[call.fromRow][call.fromCol].color
      name == IF call.toCol = 6
              THEN (IF color = "white" THEN "whiteKingside" ELSE "blackKingside")
              ELSE (IF color = "white" THEN "whiteQueenside" ELSE "blackQueenside")
  IN  IF IsNull(call.castlingRights) THEN FALSE ELSE call.castlingRights[name]

\* the columns strictly between the king and the rook of the call's wing
betweenCols == IF call.toCol = 6 THEN {5, 6} ELSE {1, 2, 3}

\* the column the king crosses
crossedCol == IF call.toCol = 6 THEN 5 ELSE 3

\* C7: isValidKingMove never accepts a castling move when the flag of the
\* colour and wing is false, when a square between king and rook is occupied,
\* when the king's own square is attacked, or when the square it crosses is attacked
C7_CastlingNeverAcceptedWhenBarred ==
  (castlingCall /\ call.result = TRUE) =>
    LET color == gameState.board[call.fromRow][call.fromCol].color
    IN  /\ castlingFlag
        /\ \A c \in betweenCols : gameState.board[call.fromRow][c] = Null
        /\ ~isSquareAttacked(gameState.board, call.fromRow, call.fromCol, color)
        /\ ~isSquareAttacked(gameState.board, call.fromRow, crossedCol, color)

\* the three conditions of C7 that isValidKingMove tests itself: the flag, the
\* squares between, the square crossed
C7_FlagPathAndCrossingTested ==
  (castlingCall /\ call.result = TRUE) =>
    LET color == gameState.board[call.fromRow][call.fromCol].color
    IN  /\ castlingFlag
        /\ \A c \in betweenCols : gameState.board[call.fromRow][c] = Null
        /\ ~isSquareAttacked(gameState.board, call.fromRow, crossedCol, color)

\* C10: a request with a row or column outside 0..7 is answered by isValidMove
\* with the value false, and never with an exception
C10_OutOfRangeReportedFalse ==
  (/\ call.fn = "isValidMove"
   /\ {call.fromRow, call.fromCol, call.toRow, call.toCol} \ Idx # {})
    => (~call.threw /\ call.result = FALSE)

\* the part of C10 about exceptions alone: isValidMove never throws
C10_NeverThrows ==
  call.fn = "isValidMove" => ~call.threw

\* the part of C10 about the value alone: an out-of-range request that does
\* not throw is answered false
C10_OutOfRangeNeverTrue ==
  (/\ call.fn = "isValidMove"
   /\ {call.fromRow, call.fromCol, call.toRow, call.toCol} \ Idx # {}
   /\ ~call.threw)
    => call.result = FALSE

(***************************************************************************)
(* The search as a function: a position is drawn and minimax or            *)
(* getBestMove is called on it.  The personality is the standard one, or a *)
(* name the registry does not hold, which it resolves to the standard one. *)
(***************************************************************************)
\* plies the search looks ahead
MaxDepth == 2

\* the root windows <<alpha, beta>> minimax is called with: the full one, and two half-open ones
Windows == {<<-Infinity, Infinity>>, <<-Infinity, 0>>, <<0, Infinity>>}

PersonalityArgs == {"standard", "grandmaster", "toString"}

DifficultyArgs == {"easy", "medium", "hard", "expert"}

SearchPositions == SearchStates

SearchInit ==
  /\ gameState \in SearchPositions
  /\ gameSettings = InitialGameSettings
  /\ statusTimer = NoTimer
  /\ lastOp = "init"
  /\ ply = 0
  /\ call = NoCall
  /\ gameTimer = InitialGameTimer

CallMinimax(depth, window, maximizingPlayer, color) ==
  Called([fn |-> "minimax", depth |-> depth, alpha |-> window[1], beta |-> window[2],
          maximizingPlayer |-> maximizingPlayer, color |-> color, personality |-> "standard",
          result |-> minimax(gameState.board, depth, window[1], window[2], maximizingPlayer, color,
                             gameState.castlingRights, gameState.lastMove, "standard")])

CallGetBestMove(color, difficulty, personality) ==
  /\ searchDepth(difficulty, personality) <= MaxDepth
  /\ Called([fn |-> "getBestMove", color |-> color, difficulty |-> difficulty, personality |-> personality,
             result |-> getBestMove(gameState.board, color, gameState.castlingRights, gameState.lastMove,
                                    difficulty, personality)])

\* the pieces put on a square before the board is evaluated
AllPieces == {P(t, c) : t \in PieceTypes, c \in Colors}

\* evaluateBoard for the standard personality on the position with one square
\* made to hold a given piece
CallEvaluateBoard(color, row, col, piece) ==
  LET board == [gameState.board EXCEPT ![row][col] = piece]
  IN  Called([fn |-> "evaluateBoard", color |-> color, board |-> board,
              result |-> evaluateBoard(board, color, "standard")])

\* the first half of getBestMove: the depth it is about to pass to minimax
CallGetBestMoveDepth(difficulty, personality) ==
  Called([fn |-> "getBestMove.depth", difficulty |-> difficulty, personality |-> personality,
          depth |-> searchDepth(difficulty, personality)])

\* the values of Math.random(), in tenths
RandomDraws == {0, 1, 2, 5, 9}

\* the list handed to movePreference: the legal moves of a colour, and that list
\* followed by its first moves once more
moveLists(color) ==
  LET moves == getAllValidMoves(gameState.board, color, gameState.castlingRights, gameState.lastMove)
  IN  {moves, moves \o SubSeq(moves, 1, Min(2, Len(moves)))}

CallMovePreference(personality, moves, random) ==
  Called([fn |-> "movePreference", personality |-> personality, moves |-> moves, random |-> random,
          result |-> movePreferenceDrawn(personality, moves, random)])

SearchNext ==
  \/ /\ call = NoCall
     /\ \E depth \in 0..MaxDepth, window \in Windows, maximizingPlayer \in BOOLEAN, color \in Colors :
           CallMinimax(depth, window, maximizingPlayer, color)
  \/ /\ call = NoCall
     /\ \E color \in Colors, difficulty \in DifficultyArgs :
           CallGetBestMove(color, difficulty, "standard")
  \/ /\ call = NoCall
     /\ \E personality \in PersonalityNames, color \in Colors, random \in RandomDraws \X RandomDraws :
           \E moves \in moveLists(color) : CallMovePreference(personality, moves, random)
  \/ /\ call = NoCall
     /\ \E difficulty \in DifficultyArgs, personality \in PersonalityNames \cup PersonalityArgs :
           CallGetBestMoveDepth(difficulty, personality)
  \/ /\ call = NoCall
     /\ \E color \in Colors, row \in Idx, col \in Idx, piece \in AllPieces :
           CallEvaluateBoard(color, row, col, piece)

SpecSearch == SearchInit /\ [][SearchNext]_vars

(***************************************************************************)
(* The search on the positions with the fewest pieces, called with every   *)
(* personality argument                                                    *)
(***************************************************************************)
FewPiecePositions == {PawnEnding, QueenMate, PawnTension}

FewPieceInit ==
  /\ gameState \in FewPiecePositions
  /\ gameSettings = InitialGameSettings
  /\ statusTimer = NoTimer
  /\ lastOp = "init"
  /\ ply = 0
  /\ call = NoCall
  /\ gameTimer = InitialGameTimer

FewPieceNext ==
  \/ /\ call = NoCall
     /\ \E depth \in 0..MaxDepth, window \in Windows, maximizingPlayer \in BOOLEAN, color \in Colors :
           CallMinimax(depth, window, maximizingPlayer, color)
  \/ /\ call = NoCall
     /\ \E color \in Colors, difficulty \in DifficultyArgs, personality \in PersonalityArgs :
           CallGetBestMove(color, difficulty, personality)

SpecFewPieces == FewPieceInit /\ [][FewPieceNext]_vars

\* a rook mate in one (Ra1-a8) whose flight square g7 is guarded by the pawn on f6
PawnGuardMate == endgame(<< <<7, 4, "king", "white">>, <<7, 0, "rook", "white">>, <<2, 5, "pawn", "white">>, <<1, 7, "pawn", "black">>, <<0, 7, "king", "black">> >>, "white")

\* positions with and without a mate in one
MatePositions == {QueenMateInOne, PawnGuardMate, PawnEnding}

MateInit ==
  /\ gameState \in MatePositions
  /\ gameSettings = InitialGameSettings
  /\ statusTimer = NoTimer
  /\ lastOp = "init"
  /\ ply = 0
  /\ call = NoCall
  /\ gameTimer = InitialGameTimer

SpecMate == MateInit /\ [][SearchNext]_vars

(***************************************************************************)
(* Properties of the search, checked under SpecSearch                      *)
(***************************************************************************)
SetMax(S) == CHOOSE x \in S : \A y \in S : y <= x

SetMin(S) == CHOOSE x \in S : \A y \in S : x <= y

\* the score of a minimax of the same depth with the same leaf and terminal
\* rules, which looks at every move of every node and keeps no window
RECURSIVE exhaustive(_, _, _, _, _, _, _)
exhaustive(board, depth, maximizingPlayer, color, castlingRights, lastMove, personality) ==
  IF depth = 0 THEN evaluateBoard(board, color, personality)
  ELSE LET currentColor == IF maximizingPlayer THEN color ELSE Other(color)
           moves == getAllValidMoves(board, currentColor, castlingRights, lastMove)
           scores == {exhaustive(makeMove(board, moves[i]), depth - 1, ~maximizingPlayer, color,
                                 castlingRights, moves[i], personality) : i \in 1..Len(moves)}
       IN  IF isCheckmate(board, currentColor, castlingRights, lastMove)
           THEN (IF maximizingPlayer THEN -(2 * MateScore) ELSE 2 * MateScore)
           ELSE IF isStalemate(board, currentColor, castlingRights, lastMove) THEN 0
           ELSE IF Len(moves) = 0 THEN evaluateBoard(board, color, personality)
           ELSE IF maximizingPlayer THEN SetMax(scores) ELSE SetMin(scores)

\* C4: for the standard personality and the full window, the score minimax
\* returns at depth >= 1 is the score of the exhaustive minimax of that depth
C4_PruningKeepsScore ==
  (/\ call.fn = "minimax"
   /\ call.depth >= 1
   /\ call.alpha = -Infinity
   /\ call.beta = Infinity)
    => call.result.score = exhaustive(gameState.board, call.depth, call.maximizingPlayer, call.color,
                                      gameState.castlingRights, gameState.lastMove, call.personality)

\* C4 witness: a full-window search two plies deep or deeper, from a node with
\* several moves, has returned a move
C4_Witness ==
  /\ call.fn = "minimax"
  /\ call.depth >= 2
  /\ call.alpha = -Infinity
  /\ call.beta = Infinity
  /\ call.result.move # NoMove
  /\ Len(getAllValidMoves(gameState.board, IF call.maximizingPlayer THEN call.color ELSE Other(call.color),
                          gameState.castlingRights, gameState.lastMove)) >= 2

\* C9: getBestMove returns no move when the colour has no legal move, and
\* otherwise an element of getAllValidMoves, which isValidMove accepts and
\* which does not leave the colour's king in check
C9_BestMoveIsAValidMove ==
  call.fn = "getBestMove" =>
    LET moves == getAllValidMoves(gameState.board, call.color, gameState.castlingRights, gameState.lastMove)
        best == call.result
    IN  IF Len(moves) = 0 THEN best = NoMove
        ELSE /\ \E i \in 1..Len(moves) : moves[i] = best
             /\ isValidMove(gameState.board, best.fromRow, best.fromCol, best.toRow, best.toCol)
             /\ ~wouldBeInCheck(gameState.board, best.fromRow, best.fromCol, best.toRow, best.toCol, call.color)

\* C9 witness: getBestMove has returned a move for a colour that has moves
C9_Witness ==
  /\ call.fn = "getBestMove"
  /\ call.result # NoMove
  /\ Len(getAllValidMoves(gameState.board, call.color, gameState.castlingRights, gameState.lastMove)) > 0

\* the other case of C9 is reached too: getBestMove was called for a colour
\* without a legal move and returned no move
C9_NoMoveReached ==
  /\ call.fn = "getBestMove"
  /\ call.result = NoMove
  /\ Len(getAllValidMoves(gameState.board, call.color, gameState.castlingRights, gameState.lastMove)) = 0

\* C14: makeMove, wouldBeInCheck, getAllValidMoves, isCheckmate and isStalemate,
\* applied to the position drawn, and minimax, at every depth searched, leave
\* every square of the caller's board holding the piece it held before the call
C14_CallerBoardUnchanged ==
  LET board == gameState.board
      store == storeOf(board)
      kept(after) == deref(after, callerBoard) = board
  IN  /\ call = NoCall =>
            /\ \A color \in Colors :
                  /\ kept(getAllValidMovesStore(store, callerBoard, color))
                  /\ kept(isCheckmateStore(store, callerBoard, color))
                  /\ kept(isStalemateStore(store, callerBoard, color))
                  /\ LET moves == getAllValidMoves(board, color, gameState.castlingRights, gameState.lastMove)
                     IN  \A i \in 1..Len(moves) : kept(makeMoveStore(store, callerBoard, moves[i]).store)
            /\ \A f \in Squares, t \in Squares :
                  Truthy(board[f[1]][f[2]]) => kept(wouldBeInCheckStore(store, callerBoard, f[1], f[2], t[1], t[2]))
      /\ call.fn = "minimax" =>
            kept(minimaxStore(store, callerBoard, call.depth, call.alpha, call.beta, call.maximizingPlayer,
                              call.color, gameState.castlingRights, gameState.lastMove, call.personality))

\* C14 witness: minimax has searched to the deepest level and returned a move;
\* makeMove for that move has written to eight new rows, which differ from the
\* caller's board
C14_Witness ==
  /\ call.fn = "minimax"
  /\ call.depth = MaxDepth
  /\ call.result.move # NoMove
  /\ LET newBoard == makeMoveStore(storeOf(gameState.board), callerBoard, call.result.move)
     IN  /\ Len(newBoard.store) = 16
         /\ deref(newBoard.store, newBoard.ref) = makeMove(gameState.board, call.result.move)
         /\ deref(newBoard.store, newBoard.ref) # gameState.board

\* the number of times a move occurs in a list
occurrences(moves, move) == Cardinality({i \in 1..Len(moves) : moves[i] = move})

\* C15: for every personality of the registry and every outcome of Math.random(),
\* movePreference returns a permutation of its argument: every move occurs in
\* the result as often as in the argument, so that for the legal moves of a
\* position the moves returned are exactly the legal moves
C15_MovePreferencePermutes ==
  call.fn = "movePreference" =>
    /\ Len(call.result) = Len(call.moves)
    /\ \A i \in 1..Len(call.moves) :
          occurrences(call.result, call.moves[i]) = occurrences(call.moves, call.moves[i])
    /\ \A i \in 1..Len(call.result) :
          occurrences(call.result, call.result[i]) = occurrences(call.moves, call.result[i])

\* C15 witness: a random draw has moved a later move of a list with a repeated
\* move to the front
C15_Witness ==
  /\ call.fn = "movePreference"
  /\ call.personality \in {"creative", "beginner"}
  /\ call.result # call.moves
  /\ \E i \in 1..Len(call.moves) : occurrences(call.moves, call.moves[i]) = 2

\* a sort has changed the order of a list too
C15_SortReached ==
  /\ call.fn = "movePreference"
  /\ call.personality \in {"aggressive", "defensive", "positional"}
  /\ call.result # call.moves

\* the personality names tried that are not keys of the registry
UnknownNames == PersonalityArgs \ PersonalityNames

\* C16: for a personality name that is not a key of the registry, evaluateBoard,
\* minimax and getBestMove return what they return for "standard" on the same
\* arguments, and the depth searched is that of the difficulty tier
C16_UnknownPersonalityIsStandard ==
  \A personality \in UnknownNames :
     /\ \A color \in Colors : evaluateBoard(gameState.board, color, personality)
                                  = evaluateBoard(gameState.board, color, "standard")
     /\ \A difficulty \in DifficultyArgs : searchDepth(difficulty, personality) = baseDepth(difficulty)
     /\ (call.fn = "minimax" /\ call.personality = "standard") =>
           minimax(gameState.board, call.depth, call.alpha, call.beta, call.maximizingPlayer, call.color,
                   gameState.castlingRights, gameState.lastMove, personality) = call.result
     /\ (call.fn = "getBestMove" /\ call.personality = personality) =>
           call.result = getBestMove(gameState.board, call.color, gameState.castlingRights, gameState.lastMove,
                                     call.difficulty, "standard")

\* C16 witness: getBestMove has returned a move for a name the registry inherits
\* from Object.prototype
C16_Witness ==
  /\ call.fn = "getBestMove"
  /\ call.personality \in InheritedNames
  /\ call.result # NoMove

\* the recorded call is isValidMove for a knight standing on the source square,
\* with a destination on the board
knightCall ==
  /\ call.fn = "isValidMove"
  /\ call.fromRow \in Idx /\ call.fromCol \in Idx
  /\ call.toRow \in Idx /\ call.toCol \in Idx
  /\ gameState.board[call.fromRow][call.fromCol] # Null
  /\ gameState.board[call.fromRow][call.fromCol].type = "knight"

\* the delta of the recorded call is (+-1, +-2) or (+-2, +-1)
knightDelta ==
  <<call.toRow - call.fromRow, call.toCol - call.fromCol>> \in knightMoves

\* what a square other than source and destination is made to hold
OtherContents == {Null, P("queen", "white"), P("pawn", "black"), P("king", "black")}

\* C17 as stated: for a knight isValidMove is true iff the delta is an L,
\* whatever the board holds
C17_KnightMoveIffDelta ==
  knightCall => (~call.threw /\ call.result = knightDelta)

\* C17 amended: for a knight isValidMove is true iff the delta is an L and the
\* destination holds no piece of the knight's colour; the content of any other
\* square does not change the result
C17_KnightMoveIffDeltaAndNotOwnPiece ==
  knightCall =>
    LET board == gameState.board
        knight == board[call.fromRow][call.fromCol]
        target == board[call.toRow][call.toCol]
    IN  /\ ~call.threw
        /\ call.result = (knightDelta /\ ~(target # Null /\ target.color = knight.color))
        /\ \A sq \in Squares \ {<<call.fromRow, call.fromCol>>, <<call.toRow, call.toCol>>} :
              \A piece \in OtherContents :
                 isValidMove([board EXCEPT ![sq[1]][sq[2]] = piece],
                             call.fromRow, call.fromCol, call.toRow, call.toCol) = call.result

\* C17 witness: a knight was allowed a jump of two rows over an occupied square
\* next to it
C17_Witness ==
  /\ knightCall
  /\ call.result = TRUE
  /\ Abs(call.toRow - call.fromRow) = 2
  /\ gameState.board[(call.fromRow + call.toRow) \div 2][call.fromCol] # Null
  /\ gameState.board[(call.fromRow + call.toRow) \div 2][call.toCol] # Null

\* C18: for every difficulty value and every personality of the registry the
\* depth getBestMove passes to minimax is the depth of the tier (2, 3 or 4, any
\* other value counting as medium) times the difficultyMultiplier, rounded to
\* the nearest integer, and lies between 1 and 6
C18_DepthScaledAndBounded ==
  (call.fn = "getBestMove.depth" /\ call.personality \in PersonalityNames) =>
    LET tier == CASE call.difficulty = "easy" -> 2
                  [] call.difficulty = "hard" -> 4
                  [] OTHER -> 3
        tenths == tier * difficultyMultiplier10(call.personality)
    IN  /\ call.depth \in 1..6
        /\ Abs(10 * call.depth - tenths) <= 5
        /\ call.depth = searchDepth(IF call.difficulty \in {"easy", "medium", "hard"} THEN call.difficulty ELSE "medium",
                                    call.personality)

\* C18 witness: a depth that differs from the depth of its tier
C18_Witness ==
  /\ call.fn = "getBestMove.depth"
  /\ call.personality = "positional"
  /\ call.difficulty = "hard"
  /\ call.depth = 5

\* the smallest depth, 1, is reached by the beginner at the easy tier
C18_DepthOneReached ==
  /\ call.fn = "getBestMove.depth"
  /\ call.personality = "beginner"
  /\ call.depth = 1

\* the colour to move at the root of the minimax call recorded
callCurrentColor == IF call.maximizingPlayer THEN call.color ELSE Other(call.color)

\* the colour to move at the root of the call has no legal move
callRootHasNoMove == LegalPairs(gameState.board, callCurrentColor) = {}

\* C19: minimax with depth >= 1 returns -10000 for a checkmated side to move that
\* is the maximizing side and +10000 otherwise, 0 for a stalemated side to move,
\* and no move in both cases; with depth 0 it returns the static evaluation,
\* also where the side to move is checkmated or stalemated (scores in half points)
C19_TerminalScores ==
  call.fn = "minimax" =>
    IF call.depth = 0
    THEN call.result = [move |-> NoMove, score |-> evaluateBoard(gameState.board, call.color, call.personality)]
    ELSE callRootHasNoMove =>
           IF isKingInCheck(gameState.board, callCurrentColor)
           THEN call.result = [move |-> NoMove,
                               score |-> IF call.maximizingPlayer THEN -(2 * MateScore) ELSE 2 * MateScore]
           ELSE call.result = [move |-> NoMove, score |-> 0]

\* C19 witness: minimax has returned the mate score for a checkmated side to move
C19_Witness ==
  /\ call.fn = "minimax"
  /\ call.depth >= 1
  /\ isKingInCheck(gameState.board, callCurrentColor)
  /\ callRootHasNoMove
  /\ call.result.score \in {2 * MateScore, -(2 * MateScore)}

\* minimax has returned 0 for a stalemated side to move
C19_StalemateReached ==
  /\ call.fn = "minimax"
  /\ call.depth >= 1
  /\ ~isKingInCheck(gameState.board, callCurrentColor)
  /\ callRootHasNoMove
  /\ call.result.score = 0

\* minimax with depth 0 has returned the static evaluation, which is not the mate
\* score, for a checkmated side to move
C19_DepthZeroOnMateReached ==
  /\ call.fn = "minimax"
  /\ call.depth = 0
  /\ isKingInCheck(gameState.board, callCurrentColor)
  /\ callRootHasNoMove
  /\ call.result.score \notin {2 * MateScore, -(2 * MateScore)}

\* the material value and position bonus, in half points, of the pieces of one
\* colour on squares k..63, the bonus row counted from the colour's own side
RECURSIVE sideWorth(_, _, _)
sideWorth(board, color, k) ==
  IF k = 64 THEN 0
  ELSE LET row == k \div 8
           col == k % 8
           piece == board[row][col]
       IN  (IF piece # Null /\ piece.color = color
            THEN 2 * BASE_PIECE_VALUES[piece.type]
                 + POSITION_BONUSES[piece.type][(IF color = "white" THEN row ELSE 7 - row) + 1][col + 1]
            ELSE 0)
           + sideWorth(board, color, k + 1)

\* C20: for the standard personality evaluateBoard is zero-sum: the score for
\* white is the negation of the score for black, and the score for a colour is
\* the material and position value of its pieces less that of the other colour's
C20_EvaluateBoardZeroSum ==
  call.fn = "evaluateBoard" =>
    /\ call.result = -evaluateBoard(call.board, Other(call.color), "standard")
    /\ call.result = sideWorth(call.board, call.color, 0) - sideWorth(call.board, Other(call.color), 0)

\* C20 witness: a board evaluated on which both colours have pieces besides the
\* king and the score is not zero
C20_Witness ==
  /\ call.fn = "evaluateBoard"
  /\ call.result # 0
  /\ \A color \in Colors :
        \E sq \in Squares : /\ call.board[sq[1]][sq[2]] # Null
                            /\ call.board[sq[1]][sq[2]].color = color
                            /\ call.board[sq[1]][sq[2]].type # "king"

\* the flags the claim ties to a piece leaving a square
tiedFlags(piece, fromRow, fromCol) ==
  CASE piece.type = "king" ->
         {f \in RightsFlags : (piece.color = "white") = (f \in {"whiteKingside", "whiteQueenside"})}
    [] piece.type = "rook" ->
         {f \in RightsFlags :
            \/ f = "whiteQueenside" /\ piece.color = "white" /\ <<fromRow, fromCol>> = <<7, 0>>
            \/ f = "whiteKingside" /\ piece.color = "white" /\ <<fromRow, fromCol>> = <<7, 7>>
            \/ f = "blackQueenside" /\ piece.color = "black" /\ <<fromRow, fromCol>> = <<0, 0>>
            \/ f = "blackKingside" /\ piece.color = "black" /\ <<fromRow, fromCol>> = <<0, 7>>}
    [] OTHER -> {}

\* C21: updateCastlingRights returns false for the flags tied to the moved piece
\* (both flags of a king's colour, the flag of the corner of its own back rank a
\* rook leaves) and the input value for every other flag, and the rights object
\* passed in holds afterwards what it held before
C21_OnlyTiedFlagsCleared ==
  (call.fn = "updateCastlingRights" /\ ~IsNull(call.castlingRights)) =>
    /\ \A f \in RightsFlags :
          call.result[f] = (IF f \in tiedFlags(call.piece, call.fromRow, call.fromCol)
                            THEN FALSE ELSE call.castlingRights[f])
    /\ call.after.store[call.after.ref] = call.result
    /\ call.after.store[1] = call.castlingRights

\* C21 witness: a white rook left h1 with all rights held; only whiteKingside was
\* cleared, in a new object
C21_Witness ==
  /\ call.fn = "updateCastlingRights"
  /\ call.castlingRights = AllRights
  /\ call.piece = P("rook", "white")
  /\ <<call.fromRow, call.fromCol>> = <<7, 7>>
  /\ call.result = [AllRights EXCEPT !.whiteKingside = FALSE]
  /\ call.after.ref = 2

\* C22: for a move between two different squares, makeMove returns a board with
\* the moved piece, its type unchanged, on the destination, nothing on the source
\* and every other square as in the input, also where the move is a castling
\* move, an en passant capture or a pawn reaching the last rank
C22_MakeMoveRelocatesOnly ==
  (call.fn = "makeMove" /\ <<call.fromRow, call.fromCol>> # <<call.toRow, call.toCol>>) =>
    /\ call.result[call.toRow][call.toCol] = gameState.board[call.fromRow][call.fromCol]
    /\ call.result[call.fromRow][call.fromCol] = Null
    /\ \A sq \in Squares \ {<<call.fromRow, call.fromCol>>, <<call.toRow, call.toCol>>} :
          call.result[sq[1]][sq[2]] = gameState.board[sq[1]][sq[2]]

\* C22 witness: makeMove was given a castling move that isValidKingMove accepts
\* with the rights of the game; the rook is still in its corner
C22_Witness ==
  /\ call.fn = "makeMove"
  /\ gameState.board[call.fromRow][call.fromCol].type = "king"
  /\ Abs(call.toCol - call.fromCol) = 2
  /\ isValidKingMove(gameState.board, call.fromRow, call.fromCol, call.toRow, call.toCol,
                     gameState.castlingRights, FALSE)
  /\ call.result[call.fromRow][IF call.toCol > call.fromCol THEN 7 ELSE 0].type = "rook"

\* makeMove was given the move of an en passant capture, a pawn going diagonally
\* to an empty square past an enemy pawn beside it; that pawn is still on the board
C22_EnPassantReached ==
  /\ call.fn = "makeMove"
  /\ gameState.board[call.fromRow][call.fromCol].type = "pawn"
  /\ call.fromCol # call.toCol
  /\ Abs(call.toCol - call.fromCol) = 1
  /\ call.toRow = call.fromRow + (IF gameState.board[call.fromRow][call.fromCol].color = "white" THEN -1 ELSE 1)
  /\ gameState.board[call.toRow][call.toCol] = Null
  /\ gameState.board[call.fromRow][call.toCol] # Null
  /\ gameState.board[call.fromRow][call.toCol].color # gameState.board[call.fromRow][call.fromCol].color
  /\ call.result[call.fromRow][call.toCol].type = "pawn"

\* makeMove was given a pawn move to the last rank; the piece is still a pawn
C22_LastRankReached ==
  /\ call.fn = "makeMove"
  /\ gameState.board[call.fromRow][call.fromCol].type = "pawn"
  /\ call.toRow \in {0, 7}
  /\ isValidMove(gameState.board, call.fromRow, call.fromCol, call.toRow, call.toCol)
  /\ call.result[call.toRow][call.toCol].type = "pawn"

\* the squares holding a piece of the colour opposite to defendingColor whose
\* capture onto (row, col) isValidMove accepts
capturers(board, row, col, defendingColor) ==
  {sq \in Squares : /\ board[sq[1]][sq[2]] # Null
                    /\ board[sq[1]][sq[2]].color = Other(defendingColor)
                    /\ isValidMove(board, sq[1], sq[2], row, col)}

\* C23: for a square occupied by a piece of defendingColor, isSquareAttacked is
\* true iff some piece of the opposite colour has a capture onto the square that
\* isValidMove accepts
C23_AttackedIffCaptureAccepted ==
  (/\ call.fn = "isSquareAttacked"
   /\ gameState.board[call.row][call.col] # Null
   /\ gameState.board[call.row][call.col].color = call.defendingColor)
    => (call.result <=> capturers(gameState.board, call.row, call.col, call.defendingColor) # {})

\* C23 holds of every call in which no pawn of the opposite colour stands on a
\* square diagonally adjacent to the square asked about
C23_AttackedIffCaptureAcceptedWithoutPawns ==
  (/\ call.fn = "isSquareAttacked"
   /\ gameState.board[call.row][call.col] # Null
   /\ gameState.board[call.row][call.col].color = call.defendingColor
   /\ \A dr \in {-1, 1}, dc \in {-1, 1} :
         At(IF call.row + dr \in Idx THEN gameState.board ELSE EmptyBoard,
            IF call.row + dr \in Idx THEN call.row + dr ELSE 0, call.col + dc)
           # P("pawn", Other(call.defendingColor)))
    => (call.result <=> capturers(gameState.board, call.row, call.col, call.defendingColor) # {})

\* C24: a click that changes the board moves a piece of currentPlayer and, unless
\* it leaves a promotion pending, hands the turn to the opponent; the promotion
\* choice that completes a pawn's move to the last rank leaves the turn with the
\* opponent of the pawn's colour
C24_TurnsAlternate ==
  [][/\ (lastOp' = "handleSquareClick" /\ gameState'.board # gameState.board) =>
          /\ gameState.board[gameState.selectedPiece.row][gameState.selectedPiece.col].color
                = gameState.currentPlayer
          /\ IsNull(gameState'.promotionPending) =>
                gameState'.currentPlayer = Other(gameState.currentPlayer)
     /\ (lastOp' = "handlePromotion" /\ ~IsNull(gameState.promotionPending)) =>
          gameState'.currentPlayer = Other(gameState.promotionPending.color)]_vars

\* the part of C24 about moves that are not promotions
C24_OrdinaryMovesAlternate ==
  [][(lastOp' = "handleSquareClick" /\ gameState'.board # gameState.board) =>
          /\ gameState.board[gameState.selectedPiece.row][gameState.selectedPiece.col].color
                = gameState.currentPlayer
          /\ IsNull(gameState'.promotionPending) =>
                gameState'.currentPlayer = Other(gameState.currentPlayer)]_vars

\* it is the computer's turn in a game that is not over, with no promotion
\* pending, a legal move for the computer and a move left within the bound
computerToMove ==
  /\ gameSettings.opponent = "ai"
  /\ gameState.currentPlayer # gameSettings.playerColor
  /\ gameState.gameStatus \in {"active", "check"}
  /\ IsNull(gameState.promotionPending)
  /\ ply < MaxPly
  /\ LegalPairs(gameState.board, gameState.currentPlayer) # {}

\* the turn is no longer the computer's to play
turnPassed ==
  \/ gameState.currentPlayer = gameSettings.playerColor
  \/ ~IsNull(gameState.promotionPending)

\* C25: in a game against the computer, whenever it is the computer's turn, the
\* game is not over, no promotion is pending and the computer has a legal move,
\* the computer eventually plays, also when it is in check
C25_ComputerEventuallyPlays == computerToMove ~> turnPassed

\* C25 restricted to gameStatus "active": there the computer does play
C25_ComputerPlaysWhenActive == (computerToMove /\ gameState.gameStatus = "active") ~> turnPassed

\* the recorded call is isValidPawnMove without lastMove
pawnCall == call.fn = "isValidPawnMove"

\* C26: without lastMove, isValidPawnMove is true iff the move is one square
\* straight forward onto an empty square, two squares straight forward from the
\* starting row over an empty square onto an empty square, or one square
\* diagonally forward onto an enemy piece; so never backward, sideways or a
\* capture straight ahead
C26_PawnMoveShapes ==
  pawnCall =>
    LET board == gameState.board
        pawn == board[call.fromRow][call.fromCol]
        forward == IF pawn.color = "white" THEN -1 ELSE 1
        home == IF pawn.color = "white" THEN 6 ELSE 1
        rowDelta == call.toRow - call.fromRow
        colDelta == call.toCol - call.fromCol
        target == board[call.toRow][call.toCol]
        single == colDelta = 0 /\ rowDelta = forward /\ target = Null
        double == /\ colDelta = 0 /\ rowDelta = 2 * forward /\ call.fromRow = home
                  /\ target = Null
                  /\ board[call.fromRow + forward][call.fromCol] = Null
        capture == /\ colDelta \in {-1, 1} /\ rowDelta = forward
                   /\ target # Null /\ target.color # pawn.color
    IN  /\ call.result = (single \/ double \/ capture)
        /\ call.result => rowDelta * forward > 0
        /\ (call.result /\ colDelta = 0) => target = Null

\* C26 witness: a double step from the starting row was allowed
C26_Witness ==
  /\ pawnCall
  /\ call.toCol = call.fromCol
  /\ Abs(call.toRow - call.fromRow) = 2
  /\ call.result

\* a double step over an occupied square onto an empty one was refused
C26_BlockedDoubleStepReached ==
  /\ pawnCall
  /\ call.toCol = call.fromCol
  /\ Abs(call.toRow - call.fromRow) = 2
  /\ gameState.board[call.toRow][call.toCol] = Null
  /\ gameState.board[(call.toRow + call.fromRow) \div 2][call.fromCol] # Null
  /\ gameState.board[call.fromRow][call.fromCol].color = "white" => call.fromRow = 6 /\ call.toRow = 4
  /\ gameState.board[call.fromRow][call.fromCol].color = "black" => call.fromRow = 1 /\ call.toRow = 3
  /\ ~call.result

\* a diagonal capture of an enemy piece was allowed, and a diagonal step onto a
\* piece of the pawn's own colour was refused
C26_CaptureReached ==
  /\ pawnCall
  /\ Abs(call.toCol - call.fromCol) = 1
  /\ gameState.board[call.toRow][call.toCol] # Null
  /\ call.result

C26_OwnPieceDiagonalReached ==
  /\ pawnCall
  /\ Abs(call.toCol - call.fromCol) = 1
  /\ Abs(call.toRow - call.fromRow) = 1
  /\ gameState.board[call.toRow][call.toCol] # Null
  /\ gameState.board[call.toRow][call.toCol].color = gameState.board[call.fromRow][call.fromCol].color
  /\ ~call.result

\* a capture straight ahead was refused
C26_BlockedAheadReached ==
  /\ pawnCall
  /\ call.toCol = call.fromCol
  /\ Abs(call.toRow - call.fromRow) = 1
  /\ gameState.board[call.toRow][call.toCol] # Null
  /\ ~call.result

\* the squares strictly between two aligned squares
Between(fromRow, fromCol, toRow, toCol) ==
  {sq \in Squares :
     /\ sq # <<fromRow, fromCol>> /\ sq # <<toRow, toCol>>
     /\ Aligned(fromRow, fromCol, sq[1], sq[2])
     /\ Aligned(sq[1], sq[2], toRow, toCol)
     /\ (sq[1] - fromRow) * (toRow - sq[1]) >= 0
     /\ (sq[2] - fromCol) * (toCol - sq[2]) >= 0
     /\ (sq[1] - fromRow) * (toCol - fromCol) = (sq[2] - fromCol) * (toRow - fromRow)}

\* the recorded call is isValidMove on the board for a rook, bishop or queen
sliderCall ==
  /\ call.fn = "isValidMove"
  /\ call.fromRow \in Idx /\ call.fromCol \in Idx
  /\ call.toRow \in Idx /\ call.toCol \in Idx
  /\ gameState.board[call.fromRow][call.fromCol] # Null
  /\ gameState.board[call.fromRow][call.fromCol].type \in {"rook", "bishop", "queen"}

\* C27: for two distinct aligned squares isPathClear is true iff every square
\* strictly between them is empty, and it reads only squares strictly between
\* them (never an endpoint, never off the board); an accepted rook, bishop or
\* queen move joins two distinct aligned squares (straight for a rook, diagonal
\* for a bishop) with nothing between them
C27_PathClearIffNothingBetween ==
  /\ call.fn = "isPathClear" =>
        LET between == Between(call.fromRow, call.fromCol, call.toRow, call.toCol)
        IN  /\ call.result = (\A sq \in between : gameState.board[sq[1]][sq[2]] = Null)
            /\ call.read \subseteq between
            /\ call.result => call.read = between
  /\ (sliderCall /\ call.result) =>
        LET type == gameState.board[call.fromRow][call.fromCol].type
            straight == call.fromRow = call.toRow \/ call.fromCol = call.toCol
            diagonal == Abs(call.toRow - call.fromRow) = Abs(call.toCol - call.fromCol)
        IN  /\ ~call.threw
            /\ <<call.fromRow, call.fromCol>> # <<call.toRow, call.toCol>>
            /\ type = "rook" => straight
            /\ type = "bishop" => diagonal
            /\ straight \/ diagonal
            /\ \A sq \in Between(call.fromRow, call.fromCol, call.toRow, call.toCol) :
                  gameState.board[sq[1]][sq[2]] = Null

\* C27 witness: isPathClear was false for squares at least three apart whose
\* only occupied square between them is not next to the source
C27_Witness ==
  /\ call.fn = "isPathClear"
  /\ ~call.result
  /\ Cardinality(call.read) >= 2

\* a rook, bishop or queen move along a line with a piece on it was refused
\* although the destination is empty
C27_BlockedSliderReached ==
  /\ sliderCall
  /\ ~call.result
  /\ Aligned(call.fromRow, call.fromCol, call.toRow, call.toCol)
  /\ gameState.board[call.toRow][call.toCol] = Null
  /\ gameState.board[call.fromRow][call.fromCol].type = "queen"

\* a slider was allowed a move of at least three squares
C27_LongSlideReached ==
  /\ sliderCall
  /\ call.result
  /\ Cardinality(Between(call.fromRow, call.fromCol, call.toRow, call.toCol)) >= 2

\* C28: a step of cancelPromotion clears promotionPending, puts the pawn back
\* on its origin square, takes it off the destination square, leaves every
\* other square alone and leaves currentPlayer, castlingRights and lastMove as
\* they are (the promoting move did not change them)
C28_CancelUndoesPromotingMove ==
  [][(lastOp' = "cancelPromotion" /\ lastOp # "cancelPromotion") =>
       LET pp == gameState.promotionPending
       IN  /\ IsNull(gameState'.promotionPending)
           /\ gameState'.board[pp.fromRow][pp.fromCol] = P("pawn", pp.color)
           /\ gameState'.board[pp.row][pp.col] # P("pawn", pp.color)
           /\ \A sq \in Squares \ {<<pp.fromRow, pp.fromCol>>, <<pp.row, pp.col>>} :
                 gameState'.board[sq[1]][sq[2]] = gameState.board[sq[1]][sq[2]]
           /\ gameState'.currentPlayer = gameState.currentPlayer
           /\ gameState'.castlingRights = gameState.castlingRights
           /\ gameState'.lastMove = gameState.lastMove]_vars

\* what cancelPromotion leaves behind: the promotion still pending and the
\* board as the promoting move made it
C28_CancelChangesNothing ==
  [][lastOp' = "cancelPromotion" => gameState' = gameState]_vars

\* a king of the colour is in check: an enemy piece has a capture onto its
\* square that isValidMove accepts
kingCapturable(board, kingColor) ==
  LET k == findKingSquare(board, kingColor)
  IN  capturers(board, k[1], k[2], kingColor) # {}

\* the board after a piece went from one square to another
relocated(board, m) ==
  [[board EXCEPT ![m[2][1]][m[2][2]] = board[m[1][1]][m[1][2]]] EXCEPT ![m[1][1]][m[1][2]] = Null]

\* the moves of a colour that isValidMove accepts and that do not leave its
\* own king to be captured
safeMoves(board, color) ==
  {m \in Squares \X Squares :
     /\ board[m[1][1]][m[1][2]] # Null
     /\ board[m[1][1]][m[1][2]].color = color
     /\ isValidMove(board, m[1][1], m[1][2], m[2][1], m[2][2])
     /\ ~kingCapturable(relocated(board, m), color)}

\* the moves of a colour after which the opponent is in check and has no move
matingMoves(board, color) ==
  {m \in safeMoves(board, color) :
     /\ kingCapturable(relocated(board, m), Other(color))
     /\ safeMoves(relocated(board, m), Other(color)) = {}}

\* the recorded call is the search getBestMove starts, two plies deep or more
rootSearchCall ==
  /\ call.fn = "minimax"
  /\ call.depth >= 2
  /\ call.alpha = -Infinity /\ call.beta = Infinity
  /\ call.maximizingPlayer

kingsOf(board, color) == {sq \in Squares : board[sq[1]][sq[2]] = P("king", color)}

\* C29: when the side searched for has a move that checkmates at once, the
\* search of getBestMove (standard personality, depth 2 or more) returns a move
\* with score 10000; and on a board with one king of each colour the absolute
\* value of evaluateBoard is below 10000 (scores are kept in half points)
C29_MateInOneScoresMate ==
  /\ (rootSearchCall /\ matingMoves(gameState.board, call.color) # {}) =>
        /\ call.result.move # NoMove
        /\ call.result.score = 2 * MateScore
  /\ (/\ call.fn = "evaluateBoard"
      /\ Cardinality(kingsOf(call.board, "white")) = 1
      /\ Cardinality(kingsOf(call.board, "black")) = 1) =>
        Abs(call.result) < 2 * MateScore

\* C29 where no pawn takes part in the mate: with a mate in one by queen and
\* king the search returns a mating move with score 10000
C29_QueenMateScoresMate ==
  (rootSearchCall /\ gameState = QueenMateInOne /\ call.color = "white") =>
     /\ call.result.score = 2 * MateScore
     /\ <<<<call.result.move.fromRow, call.result.move.fromCol>>,
          <<call.result.move.toRow, call.result.move.toCol>>>> \in matingMoves(gameState.board, "white")

\* the largest evaluation of one square for the standard personality, a king
\* set aside, and the range of a king's position bonus, in half points
maxSquareWorth ==
  LET worths == {2 * BASE_PIECE_VALUES[t] + POSITION_BONUSES[t][r + 1][c + 1] :
                   t \in PieceTypes \ {"king"}, r \in Idx, c \in Idx}
  IN  CHOOSE w \in worths : \A v \in worths : v <= w

kingBonuses == {POSITION_BONUSES["king"][r + 1][c + 1] : r \in Idx, c \in Idx}

\* the bound of C29 for every board with one king of each colour: 62 squares of
\* the largest worth and the widest difference of the kings' bonuses stay below
\* the mate score, on the boards evaluated too
C29_EvaluationBelowMate ==
  /\ \A hi \in kingBonuses, lo \in kingBonuses : 62 * maxSquareWorth + hi - lo < 2 * MateScore
  /\ (/\ call.fn = "evaluateBoard"
      /\ Cardinality(kingsOf(call.board, "white")) = 1
      /\ Cardinality(kingsOf(call.board, "black")) = 1) =>
        Abs(call.result) < 2 * MateScore

\* a second passes in this step
secondPasses == gameTimer'.second # gameTimer.second

\* the clock of a colour
clockOf(timer, color) == IF color = "white" THEN timer.whiteTime ELSE timer.blackTime

\* both clocks are within 0..initialTime
clocksInRange ==
  /\ gameTimer.whiteTime \in 0..initialTime
  /\ gameTimer.blackTime \in 0..initialTime

\* C30: both clocks stay in 0..initialTime; while the game is not over
\* (gameStatus 'active' or 'check') and the user has not paused the timer,
\* each second takes one second off the clock of currentPlayer and leaves the
\* other clock alone; a clock that reaches 0 sets gameStatus to 'timeout'
C30_ClockOfPlayerToMoveRuns ==
  [][/\ clocksInRange'
     /\ (/\ secondPasses
         /\ gameState.gameStatus \in {"active", "check"}
         /\ ~gameTimer.pausedByUser) =>
           LET mover == gameState.currentPlayer
           IN  /\ clockOf(gameTimer, mover) > 0 =>
                     clockOf(gameTimer', mover) = clockOf(gameTimer, mover) - 1
               /\ clockOf(gameTimer', Other(mover)) = clockOf(gameTimer, Other(mover))
     /\ \A color \in Colors :
           (clockOf(gameTimer, color) > 0 /\ clockOf(gameTimer', color) = 0) =>
              gameState'.gameStatus = "timeout"]_vars

\* C30 for the seconds in which the interval of the timer effect is set: the
\* clocks stay in range, the clock of currentPlayer loses one second, the
\* other clock and every clock without an interval stay as they are, and a
\* clock reaching 0 sets gameStatus to 'timeout'
C30_ClockRunsWhileIntervalSet ==
  [][/\ clocksInRange'
     /\ (secondPasses /\ gameTimer.interval) =>
           LET mover == gameState.currentPlayer
           IN  /\ gameState.gameStatus = "active"
               /\ clockOf(gameTimer, mover) > 0 =>
                     clockOf(gameTimer', mover) = clockOf(gameTimer, mover) - 1
               /\ clockOf(gameTimer', Other(mover)) = clockOf(gameTimer, Other(mover))
     /\ (secondPasses /\ ~gameTimer.interval) =>
           /\ gameTimer'.whiteTime = gameTimer.whiteTime
           /\ gameTimer'.blackTime = gameTimer.blackTime
     /\ \A color \in Colors :
           (clockOf(gameTimer, color) > 0 /\ clockOf(gameTimer', color) = 0) =>
              gameState'.gameStatus = "timeout"]_vars

\* the timer stands still in a game that is not over and that the user did
\* not pause: the player to move is in check, or the board was reset after a
\* check
C30_StoppedClockReached ==
  /\ effectSettled
  /\ gameState.gameStatus = "check"
  /\ ~gameTimer.pausedByUser
  /\ ~gameTimer.interval
  /\ lastOp = "tick"

C30_StoppedAfterResetReached ==
  /\ effectSettled
  /\ gameState = InitialGameState
  /\ ~gameTimer.pausedByUser
  /\ ~gameTimer.interval
  /\ lastOp = "tick"

\* a clock ran out
C30_TimeoutReached ==
  /\ gameState.gameStatus = "timeout"
  /\ gameTimer.whiteTime = 0 \/ gameTimer.blackTime = 0

====
